---- MODULE Spec2Model ----
(***************************************************************************)
(* Model of the wflos kernel's hardware-bootstrap layer:                   *)
(*  - the physical frame allocator (kernel/src/memory/frame_allocator.rs): *)
(*    a bitmap of one bit per 4 KiB frame laid over the usable regions of  *)
(*    the boot memory map (specifications Spec and SpecReinit);            *)
(*  - the spinlock (kernel/src/sync/spinlock.rs) under two execution       *)
(*    contexts (specification SpecLock, and SpecProgress with fairness);   *)
(*  - the allocator behind its spinlock, FRAME_ALLOCATOR, called from two  *)
(*    execution contexts (specification SpecShared);                       *)
(*  - the boot path _start with the descriptor tables, the two 8259A       *)
(*    interrupt controllers and the PS/2 keyboard driver, whose interrupt  *)
(*    handler preempts the normal path (specification SpecKernel);         *)
(*  - the pic and idt modules called one call at a time (SpecArch);        *)
(*  - the exception trampolines and handlers of idt.rs and interrupts.rs   *)
(*    (specification SpecDispatch);                                        *)
(*  - the ring buffer (shared/src/data_structures/ring_buffer.rs) under    *)
(*    push, pop and clear (specification SpecRing).                        *)
(*                                                                         *)
(* The capacities MAX_FRAMES, MAX_REGIONS and BUFFER_SIZE are scaled down  *)
(* (262144 -> 8, 64 -> 3, 256 -> 3) so that exhaustion and the capacity    *)
(* limits are reachable; FRAME_SIZE keeps its value.                       *)
(***************************************************************************)
EXTENDS Integers, Sequences, FiniteSets, TLC

\* ---------------------------------------------------------------- constants

FRAME_SIZE == 4096

\* scaled from 262144
MAX_FRAMES == 8

BITMAP_SIZE == MAX_FRAMES \div 8

\* scaled from 64
MAX_REGIONS == 3

LIMINE_MEMMAP_USABLE == 0

LIMINE_MEMMAP_RESERVED == 1

\* width of usize, scaled from 2^64 (every address of the model is below it)
USIZE_MOD == 2^30

\* largest run length requested from allocate_contiguous_frames
MaxCount == 5

\* lock()/drop cycles each execution context goes through
MaxCycles == 2

\* key presses the keyboard delivers (one more than KEYBOARD_BUFFER holds)
MaxKeys == 3

\* calls made on the pic and idt modules
MaxCalls == 2

\* exceptions the CPU takes
MaxExceptions == 2

\* items pushed on a RingBuffer between two clears
MaxPushes == 5

\* Option<usize>: None is the empty sequence, Some(x) the one-element one
None == << >>

Some(x) == << x >>

\* ------------------------------------------------------------ boot inputs

Entry(b, l, t) == [base |-> b, length |-> l, entry_type |-> t]

\* The memory maps the boot loader may deliver. Usable entries are page
\* aligned at their base and do not overlap, as the boot protocol promises.
\*  1: regions of 5 and 3 frames separated by a reserved hole; the first
\*     length has a remainder below one frame
\*  2: two physically adjacent regions of 3 frames each
\*  3: more usable frames (6 + 4) than the bitmap has bits
\*  4: more usable entries than MAX_REGIONS
\*  5: no usable entry at all
MemoryMaps ==
    { << Entry(1048576, 5 * FRAME_SIZE + 100, LIMINE_MEMMAP_USABLE),
         Entry(2097152, FRAME_SIZE, LIMINE_MEMMAP_RESERVED),
         Entry(8388608, 3 * FRAME_SIZE, LIMINE_MEMMAP_USABLE) >>,
      << Entry(1048576, 3 * FRAME_SIZE, LIMINE_MEMMAP_USABLE),
         Entry(1048576 + 3 * FRAME_SIZE, 3 * FRAME_SIZE, LIMINE_MEMMAP_USABLE) >>,
      << Entry(1048576, 6 * FRAME_SIZE, LIMINE_MEMMAP_USABLE),
         Entry(8388608, 4 * FRAME_SIZE, LIMINE_MEMMAP_USABLE) >>,
      << Entry(1048576, FRAME_SIZE, LIMINE_MEMMAP_USABLE),
         Entry(2097152, FRAME_SIZE, LIMINE_MEMMAP_USABLE),
         Entry(4194304, 2 * FRAME_SIZE, LIMINE_MEMMAP_USABLE),
         Entry(8388608, FRAME_SIZE, LIMINE_MEMMAP_USABLE) >>,
      << Entry(2097152, FRAME_SIZE, LIMINE_MEMMAP_RESERVED) >> }

HhdmOffsets == { 65536 }

\* ------------------------------------------------------------------ state

VARIABLES
    bitmap,        \* [u8; BITMAP_SIZE]
    total_frames,
    used_frames,
    regions,       \* [MemoryRegion; MAX_REGIONS]
    region_count,
    hhdm_offset,
    panicked,      \* the panic handler was entered (it never returns)
    memory_map,    \* the boot memory map handed to init (<< >> before init)
    initialized,   \* init has run
    held,          \* frame addresses handed to callers and not yet given back
    fresh_allocs,  \* k after the k-th allocate_frame of a run of nothing but
                   \* allocate_frame since init (k <= total_frames), else -1
    last           \* the last call: [op, arg, ret, changed (the allocator)]

\* a Spinlock<T> shared by two execution contexts
VARIABLES
    locked,        \* Spinlock.locked (AtomicBool)
    data,          \* Spinlock.data, here a counter
    ctx,           \* where each context is: "idle", "lock" (at the compare
                   \* exchange), "spin", then holding a guard: "guard",
                   \* "modify", "drop"
    local,         \* the value each context read through its guard
    cycles,        \* lock()/drop cycles each context has completed
    overtaken      \* how often another context has got the guard while this
                   \* context was in lock(), since it last called lock()

\* the machine under _start: CPU, descriptor tables, the two 8259A interrupt
\* controllers, the PS/2 keyboard and its driver
VARIABLES
    pc,             \* the step of _start that runs next (index into BootSteps)
    interrupt_flag, \* RFLAGS.IF
    gdt_loaded,     \* gdt::init has loaded the GDT (lgdt)
    idt,            \* the IDT: the entries written so far, by vector (every
                    \* other vector holds the null entry of Idt::new)
    idtr_loaded,    \* IDT.load() has run
    pics,           \* the 8259A pair: 1 primary, 2 secondary
    ps2,            \* the keyboard controller's output buffer [data, full]
    keys_pressed,   \* key presses so far
    kb_locked,      \* KEYBOARD_BUFFER.locked
    kb_buffer,      \* KEYBOARD_BUFFER's RingBuffer
    irq_pc,         \* where the keyboard interrupt handler is ("idle": not running)
    scan_code,      \* the handler's local scan_code
    reader_pc,      \* where read_scancode is on the normal path ("none": not called)
    read_ret,       \* what the last read_scancode returned
    misdelivered,   \* an interrupt went to a vector without the keyboard entry
    eois,           \* send_eoi calls of the keyboard handler since it was entered
    stored          \* what push returned to the handler (which drops it)

\* two execution contexts calling the public functions of frame_allocator.rs
\* on FRAME_ALLOCATOR (whose locked flag is locked, and whose position in
\* lock() and under the guard is ctx)
VARIABLES
    fa_call,        \* the call each context is in, or made last: [op, arg, ret]
    fa_seen         \* the allocator as each context read it through its guard

\* callers of the pic and idt modules, one call at a time
VARIABLES
    arch_calls,     \* calls made so far
    arch_last       \* the last call: [op, arg, writes (its port writes, in
                    \* order), before (the two masks when it was made)]

\* a RingBuffer<T, N> and what its callers have seen of it
VARIABLES
    ring,           \* the RingBuffer
    pushed,         \* the items push has stored, since creation or the last clear
    popped,         \* the items pop has returned, since creation or the last clear
    ring_last,      \* the last call: [op, arg, ret]
    cleared         \* clear has been called

\* the CPU taking an exception through one of the exception trampolines
VARIABLES
    exc_vector,     \* the vector being handled (-1: the interrupted code runs)
    exc_pc,         \* position [at, stmt]: at "idle", "push" (the trampoline's
                    \* pushes and call), "handler" (at statement stmt of the
                    \* handler), "pop", "iretq", "lost" (returned to no code)
    regs,           \* the caller-saved registers, by name
    exc_stack,      \* what the CPU and the trampoline have pushed: [kind, value]
                    \* with kind "frame" (the return frame, value the saved
                    \* interrupt flag), "error_code" or "reg" (a register
                    \* the trampoline pushed)
    console,        \* the lines reported on the serial port and the screen
    exceptions      \* exceptions taken so far

allocator_vars == << bitmap, total_frames, used_frames, regions, region_count,
                     hhdm_offset, panicked, memory_map, initialized, held,
                     fresh_allocs, last >>

lock_vars == << locked, data, ctx, local, cycles, overtaken >>

kernel_vars == << pc, interrupt_flag, gdt_loaded, idt, idtr_loaded, pics, ps2,
                 keys_pressed, kb_locked, kb_buffer, irq_pc, scan_code,
                 reader_pc, read_ret, misdelivered, eois, stored >>

caller_vars == << fa_call, fa_seen >>

arch_vars == << arch_calls, arch_last >>

ring_vars == << ring, pushed, popped, ring_last, cleared >>

exception_vars == << exc_vector, exc_pc, regs, exc_stack, console, exceptions >>

vars == << allocator_vars, lock_vars, caller_vars, kernel_vars, arch_vars,
           ring_vars, exception_vars >>

\* what the calls on the frame allocator leave alone
outside_allocator == << lock_vars, caller_vars, kernel_vars, arch_vars,
                        ring_vars, exception_vars >>

\* what the steps on the Spinlock leave alone
outside_lock == << allocator_vars, caller_vars, kernel_vars, arch_vars,
                   ring_vars, exception_vars >>

\* what the steps of _start and of the keyboard driver leave alone
outside_kernel == << lock_vars, caller_vars, arch_vars, ring_vars,
                    exception_vars >>

\* the FrameAllocator value behind FRAME_ALLOCATOR
Self == [ bitmap |-> bitmap, total_frames |-> total_frames,
          used_frames |-> used_frames, regions |-> regions,
          region_count |-> region_count, hhdm_offset |-> hhdm_offset ]

MemoryRegion_empty == [base |-> 0, frame_count |-> 0]

\* an allocator whose bitmap starts with every frame reserved
new_all_reserved ==
    [ bitmap |-> [b \in 0 .. BITMAP_SIZE - 1 |-> 255],
      total_frames |-> 0,
      used_frames |-> 0,
      regions |-> [r \in 0 .. MAX_REGIONS - 1 |-> [base |-> 0, frame_count |-> 0]],
      region_count |-> 0,
      hhdm_offset |-> 0 ]

FrameAllocator_new ==
    [ bitmap |-> [b \in 0 .. BITMAP_SIZE - 1 |-> 0],
      total_frames |-> 0,
      used_frames |-> 0,
      regions |-> [r \in 0 .. MAX_REGIONS - 1 |-> MemoryRegion_empty],
      region_count |-> 0,
      hhdm_offset |-> 0 ]

\* ------------------------------------------------------- u8 bit operations

\* byte & (1 << bit) != 0
BitTest(byte, bit) == (byte \div (2 ^ bit)) % 2 = 1

\* byte | (1 << bit)
BitOr(byte, bit) == IF BitTest(byte, bit) THEN byte ELSE byte + 2 ^ bit

\* byte & !(1 << bit)
BitClear(byte, bit) == IF BitTest(byte, bit) THEN byte - 2 ^ bit ELSE byte

\* outcome of a method: the allocator afterwards, the value returned, and
\* whether the call panicked instead of returning
Ret(self, ret) == [self |-> self, ret |-> ret, panic |-> FALSE]

Panic(self) == [self |-> self, ret |-> None, panic |-> TRUE]

\* usize subtraction: an underflow panics where overflow checks are compiled
\* in and wraps where they are not
usize_sub(a, b, overflow_checks) ==
    IF a >= b THEN [val |-> a - b, panic |-> FALSE]
    ELSE IF overflow_checks THEN [val |-> 0, panic |-> TRUE]
    ELSE [val |-> a - b + USIZE_MOD, panic |-> FALSE]

\* -------------------------------------------------- FrameAllocator methods

\* mutant: the entry type is not looked at, reserved entries are recorded too
RECURSIVE init_loop_any_type(_, _, _)
init_loop_any_type(self, map, k) ==
    IF k > Len(map) THEN self
    ELSE LET entry == map[k] IN
         IF self.region_count < MAX_REGIONS
         THEN LET frames == entry.length \div FRAME_SIZE IN
              init_loop_any_type([self EXCEPT
                             !.regions[self.region_count] =
                                 [base |-> entry.base, frame_count |-> frames],
                             !.region_count = @ + 1,
                             !.total_frames = @ + frames],
                        map, k + 1)
         ELSE init_loop_any_type(self, map, k + 1)

\* mutant: the frames of a usable entry are counted whether or not the entry
\* is recorded
RECURSIVE init_loop_counts_dropped(_, _, _)
init_loop_counts_dropped(self, map, k) ==
    IF k > Len(map) THEN self
    ELSE LET entry == map[k]
             frames == entry.length \div FRAME_SIZE
         IN
         IF entry.entry_type = LIMINE_MEMMAP_USABLE /\ self.region_count < MAX_REGIONS
         THEN init_loop_counts_dropped([self EXCEPT
                             !.regions[self.region_count] =
                                 [base |-> entry.base, frame_count |-> frames],
                             !.region_count = @ + 1,
                             !.total_frames = @ + frames],
                        map, k + 1)
         ELSE IF entry.entry_type = LIMINE_MEMMAP_USABLE
         THEN init_loop_counts_dropped([self EXCEPT !.total_frames = @ + frames],
                                       map, k + 1)
         ELSE init_loop_counts_dropped(self, map, k + 1)

RECURSIVE FrameAllocator_init_loop(_, _, _)
FrameAllocator_init_loop(self, map, k) ==
    IF k > Len(map) THEN self
    ELSE LET entry == map[k] IN
         IF entry.entry_type = LIMINE_MEMMAP_USABLE /\ self.region_count < MAX_REGIONS
         THEN LET frames == entry.length \div FRAME_SIZE IN
              FrameAllocator_init_loop([self EXCEPT
                             !.regions[self.region_count] =
                                 [base |-> entry.base, frame_count |-> frames],
                             !.region_count = @ + 1,
                             !.total_frames = @ + frames],
                        map, k + 1)
         ELSE FrameAllocator_init_loop(self, map, k + 1)

FrameAllocator_init(self, map, hhdm) == FrameAllocator_init_loop([self EXCEPT !.hhdm_offset = hhdm], map, 1)

\* mutant: the walk stops one region early, so an index of the last region
\* has no address
RECURSIVE frame_index_to_phys_loop_short(_, _, _, _)
frame_index_to_phys_loop_short(self, index, i, offset) ==
    IF i >= self.region_count - 1 THEN None
    ELSE LET region == self.regions[i] IN
         IF index < offset + region.frame_count
         THEN Some(region.base + (index - offset) * FRAME_SIZE)
         ELSE frame_index_to_phys_loop_short(self, index, i + 1,
                                             offset + region.frame_count)

RECURSIVE FrameAllocator_frame_index_to_phys_loop(_, _, _, _)
FrameAllocator_frame_index_to_phys_loop(self, index, i, offset) ==
    IF i >= self.region_count THEN None
    ELSE LET region == self.regions[i] IN
         IF index < offset + region.frame_count
         THEN Some(region.base + (index - offset) * FRAME_SIZE)
         ELSE FrameAllocator_frame_index_to_phys_loop(self, index, i + 1, offset + region.frame_count)

FrameAllocator_frame_index_to_phys(self, index) == FrameAllocator_frame_index_to_phys_loop(self, index, 0, 0)

\* mutant: the index inside the region is returned without the frames of the
\* regions before it
RECURSIVE phys_to_frame_index_loop_no_offset(_, _, _, _)
phys_to_frame_index_loop_no_offset(self, phys_addr, i, offset) ==
    IF i >= self.region_count THEN None
    ELSE LET region == self.regions[i]
             region_end == region.base + region.frame_count * FRAME_SIZE
         IN  IF phys_addr >= region.base /\ phys_addr < region_end
             THEN Some((phys_addr - region.base) \div FRAME_SIZE)
             ELSE phys_to_frame_index_loop_no_offset(self, phys_addr, i + 1,
                                                     offset + region.frame_count)

\* mutant: the frame number in the region is rounded up
RECURSIVE phys_to_frame_index_loop_round_up(_, _, _, _)
phys_to_frame_index_loop_round_up(self, phys_addr, i, offset) ==
    IF i >= self.region_count THEN None
    ELSE LET region == self.regions[i]
             region_end == region.base + region.frame_count * FRAME_SIZE
         IN  IF phys_addr >= region.base /\ phys_addr < region_end
             THEN Some(offset + (phys_addr - region.base + FRAME_SIZE - 1) \div FRAME_SIZE)
             ELSE phys_to_frame_index_loop_round_up(self, phys_addr, i + 1,
                                                    offset + region.frame_count)

RECURSIVE FrameAllocator_phys_to_frame_index_loop(_, _, _, _)
FrameAllocator_phys_to_frame_index_loop(self, phys_addr, i, offset) ==
    IF i >= self.region_count THEN None
    ELSE LET region == self.regions[i]
             region_end == region.base + region.frame_count * FRAME_SIZE
         IN  IF phys_addr >= region.base /\ phys_addr < region_end
             THEN Some(offset + (phys_addr - region.base) \div FRAME_SIZE)
             ELSE FrameAllocator_phys_to_frame_index_loop(self, phys_addr, i + 1,
                                           offset + region.frame_count)

FrameAllocator_phys_to_frame_index(self, phys_addr) == FrameAllocator_phys_to_frame_index_loop(self, phys_addr, 0, 0)

\* mutant: the frame is marked but used_frames is not incremented
RECURSIVE allocate_frame_loop_no_count(_, _)
allocate_frame_loop_no_count(self, frame_index) ==
    IF frame_index >= self.total_frames THEN Ret(self, None)
    ELSE LET byte_index == frame_index \div 8
             bit_index == frame_index % 8
         IN  IF byte_index >= BITMAP_SIZE THEN Panic(self)
             ELSE IF ~BitTest(self.bitmap[byte_index], bit_index)
             THEN LET marked == [self EXCEPT
                                     !.bitmap[byte_index] = BitOr(@, bit_index)]
                  IN  Ret(marked, FrameAllocator_frame_index_to_phys(marked, frame_index))
             ELSE allocate_frame_loop_no_count(self, frame_index + 1)

RECURSIVE FrameAllocator_allocate_frame_loop(_, _)
FrameAllocator_allocate_frame_loop(self, frame_index) ==
    IF frame_index >= self.total_frames THEN Ret(self, None)
    ELSE LET byte_index == frame_index \div 8
             bit_index == frame_index % 8
         IN  IF byte_index >= BITMAP_SIZE THEN Panic(self)
             ELSE IF ~BitTest(self.bitmap[byte_index], bit_index)
             THEN LET marked == [self EXCEPT
                                     !.bitmap[byte_index] = BitOr(@, bit_index),
                                     !.used_frames = @ + 1]
                  IN  Ret(marked, FrameAllocator_frame_index_to_phys(marked, frame_index))
             ELSE FrameAllocator_allocate_frame_loop(self, frame_index + 1)

\* mutant: the scan starts at the second frame
allocate_frame_from_second(self) == FrameAllocator_allocate_frame_loop(self, 1)

FrameAllocator_allocate_frame(self) == FrameAllocator_allocate_frame_loop(self, 0)

RECURSIVE FrameAllocator_mark_run(_, _, _, _)
FrameAllocator_mark_run(bm, base_frame_index, i, count) ==
    IF i >= count THEN bm
    ELSE LET idx == base_frame_index + i IN
         FrameAllocator_mark_run([bm EXCEPT ![idx \div 8] = BitOr(@, idx % 8)],
                  base_frame_index, i + 1, count)

\* mutant: the run is searched over the flat index space, across region
\* boundaries (f is the flat index; r and region_start_index are not used)
RECURSIVE allocate_contiguous_loop_flat(_, _, _, _, _, _, _)
allocate_contiguous_loop_flat(self, count, r, region_start_index, f, run_start, run_len) ==
    IF f >= self.total_frames THEN Ret(self, None)
    ELSE LET byte_index == f \div 8
             bit_index == f % 8
         IN  IF byte_index >= BITMAP_SIZE THEN Panic(self)
             ELSE IF ~BitTest(self.bitmap[byte_index], bit_index)
             THEN LET start == IF run_len = 0 THEN f ELSE run_start
                      len == run_len + 1
                  IN  IF len = count
                      THEN Ret([self EXCEPT
                                    !.bitmap = FrameAllocator_mark_run(@, start, 0, count),
                                    !.used_frames = @ + count],
                               FrameAllocator_frame_index_to_phys(self, start))
                      ELSE allocate_contiguous_loop_flat(self, count, r, region_start_index,
                                                         f + 1, start, len)
             ELSE allocate_contiguous_loop_flat(self, count, r, region_start_index,
                                                f + 1, run_start, 0)

\* mutant: the run length is not set back to 0 at a frame in use
RECURSIVE allocate_contiguous_loop_no_reset(_, _, _, _, _, _, _)
allocate_contiguous_loop_no_reset(self, count, r, region_start_index, f, run_start, run_len) ==
    IF r >= self.region_count THEN Ret(self, None)
    ELSE LET region == self.regions[r] IN
         IF region.frame_count < count \/ f >= region.frame_count
         THEN allocate_contiguous_loop_no_reset(self, count, r + 1,
                                       region_start_index + region.frame_count, 0, 0, 0)
         ELSE LET frame_index == region_start_index + f
                  byte_index == frame_index \div 8
                  bit_index == frame_index % 8
              IN  IF byte_index >= BITMAP_SIZE THEN Panic(self)
                  ELSE IF ~BitTest(self.bitmap[byte_index], bit_index)
                  THEN LET start == IF run_len = 0 THEN f ELSE run_start
                           len == run_len + 1
                       IN  IF len = count
                           THEN Ret([self EXCEPT
                                         !.bitmap = FrameAllocator_mark_run(@, region_start_index + start,
                                                             0, count),
                                         !.used_frames = @ + count],
                                    Some(region.base + start * FRAME_SIZE))
                           ELSE allocate_contiguous_loop_no_reset(self, count, r, region_start_index,
                                                         f + 1, start, len)
                  ELSE allocate_contiguous_loop_no_reset(self, count, r, region_start_index,
                                                f + 1, run_start, run_len)

RECURSIVE FrameAllocator_allocate_contiguous_loop(_, _, _, _, _, _, _)
FrameAllocator_allocate_contiguous_loop(self, count, r, region_start_index, f, run_start, run_len) ==
    IF r >= self.region_count THEN Ret(self, None)
    ELSE LET region == self.regions[r] IN
         IF region.frame_count < count \/ f >= region.frame_count
         THEN FrameAllocator_allocate_contiguous_loop(self, count, r + 1,
                                       region_start_index + region.frame_count, 0, 0, 0)
         ELSE LET frame_index == region_start_index + f
                  byte_index == frame_index \div 8
                  bit_index == frame_index % 8
              IN  IF byte_index >= BITMAP_SIZE THEN Panic(self)
                  ELSE IF ~BitTest(self.bitmap[byte_index], bit_index)
                  THEN LET start == IF run_len = 0 THEN f ELSE run_start
                           len == run_len + 1
                       IN  IF len = count
                           THEN Ret([self EXCEPT
                                         !.bitmap = FrameAllocator_mark_run(@, region_start_index + start,
                                                             0, count),
                                         !.used_frames = @ + count],
                                    Some(region.base + start * FRAME_SIZE))
                           ELSE FrameAllocator_allocate_contiguous_loop(self, count, r, region_start_index,
                                                         f + 1, start, len)
                  ELSE FrameAllocator_allocate_contiguous_loop(self, count, r, region_start_index,
                                                f + 1, run_start, 0)

FrameAllocator_allocate_contiguous_frames(self, count) ==
    IF count = 0 THEN Ret(self, None)
    ELSE FrameAllocator_allocate_contiguous_loop(self, count, 0, 0, 0, 0, 0)

\* mutant: the bit is cleared but used_frames is not decremented
deallocate_frame_no_decrement(self, phys_addr, overflow_checks) ==
    LET found == FrameAllocator_phys_to_frame_index(self, phys_addr) IN
    IF found = None THEN Ret(self, None)
    ELSE LET frame_index == found[1]
             byte_index == frame_index \div 8
             bit_index == frame_index % 8
         IN  IF byte_index >= BITMAP_SIZE THEN Panic(self)
             ELSE IF BitTest(self.bitmap[byte_index], bit_index)
             THEN Ret([self EXCEPT !.bitmap[byte_index] = BitClear(@, bit_index)], None)
             ELSE Ret(self, None)

\* mutant: the whole byte of the frame is cleared
deallocate_frame_whole_byte(self, phys_addr, overflow_checks) ==
    LET found == FrameAllocator_phys_to_frame_index(self, phys_addr) IN
    IF found = None THEN Ret(self, None)
    ELSE LET frame_index == found[1]
             byte_index == frame_index \div 8
             bit_index == frame_index % 8
         IN  IF byte_index >= BITMAP_SIZE THEN Panic(self)
             ELSE IF BitTest(self.bitmap[byte_index], bit_index)
             THEN LET dec == usize_sub(self.used_frames, 1, overflow_checks) IN
                  IF dec.panic
                  THEN Panic([self EXCEPT !.bitmap[byte_index] = 0])
                  ELSE Ret([self EXCEPT !.bitmap[byte_index] = 0,
                                        !.used_frames = dec.val],
                           None)
             ELSE Ret(self, None)

FrameAllocator_deallocate_frame(self, phys_addr, overflow_checks) ==
    LET found == FrameAllocator_phys_to_frame_index(self, phys_addr) IN
    IF found = None THEN Ret(self, None)
    ELSE LET frame_index == found[1]
             byte_index == frame_index \div 8
             bit_index == frame_index % 8
         IN  IF byte_index >= BITMAP_SIZE THEN Panic(self)
             ELSE IF BitTest(self.bitmap[byte_index], bit_index)
             THEN LET dec == usize_sub(self.used_frames, 1, overflow_checks) IN
                  IF dec.panic
                  THEN Panic([self EXCEPT !.bitmap[byte_index] = BitClear(@, bit_index)])
                  ELSE Ret([self EXCEPT !.bitmap[byte_index] = BitClear(@, bit_index),
                                        !.used_frames = dec.val],
                           None)
             ELSE Ret(self, None)

\* mutant: free is taken from the capacity of the bitmap, not from the
\* frames recorded
free_frames_of_capacity(self, overflow_checks) ==
    usize_sub(MAX_FRAMES, self.used_frames, overflow_checks)

FrameAllocator_free_frames(self, overflow_checks) ==
    usize_sub(self.total_frames, self.used_frames, overflow_checks)

FrameAllocator_stats(self, overflow_checks) ==
    LET free == FrameAllocator_free_frames(self, overflow_checks) IN
    IF free.panic THEN Panic(self)
    ELSE Ret(self, << self.total_frames, self.used_frames, free.val >>)

\* ------------------------------------------------------------- Spinlock

\* the two execution contexts that share the lock
Contexts == { 1, 2 }

Spinlock_new == [locked |-> FALSE, data |-> 0]

\* mutant: the arguments are exchanged, compare_exchange_weak(true, false)
compare_exchange_swapped(current, expected, new) ==
    { [is_err |-> TRUE, stored |-> current] } \cup
    IF current = new THEN { [is_err |-> FALSE, stored |-> expected] } ELSE {}

\* AtomicBool::compare_exchange_weak: the outcomes it may have on a flag that
\* holds current. It stores new and succeeds only when current = expected,
\* and even then it may fail spuriously and store nothing.
compare_exchange_weak(current, expected, new) ==
    { [is_err |-> TRUE, stored |-> current] } \cup
    IF current = expected THEN { [is_err |-> FALSE, stored |-> new] } ELSE {}

\* ------------------------------------------------------------ RingBuffer

\* scaled from 256
BUFFER_SIZE == 3

RingBuffer_new(N) ==
    [ buffer |-> [i \in 0 .. N - 1 |-> None], read_pos |-> 0, write_pos |-> 0 ]

\* N of RingBuffer<T, N>
RingBuffer_N(self) == Cardinality(DOMAIN self.buffer)

\* mutant: the full check is left out
push_unchecked(self, item) ==
    [ self |-> [self EXCEPT !.buffer[self.write_pos] = Some(item),
                            !.write_pos = (self.write_pos + 1) % RingBuffer_N(self)],
      ret |-> TRUE ]

RingBuffer_push(self, item) ==
    LET next_write == (self.write_pos + 1) % RingBuffer_N(self) IN
    IF next_write = self.read_pos THEN [self |-> self, ret |-> FALSE]
    ELSE [ self |-> [self EXCEPT !.buffer[self.write_pos] = Some(item),
                                 !.write_pos = next_write],
           ret |-> TRUE ]

\* mutant: the item pushed last is taken
pop_newest(self) ==
    LET newest == (self.write_pos + RingBuffer_N(self) - 1) % RingBuffer_N(self) IN
    IF self.read_pos = self.write_pos THEN [self |-> self, ret |-> None]
    ELSE [ self |-> [self EXCEPT !.buffer[newest] = None, !.write_pos = newest],
           ret |-> self.buffer[newest] ]

RingBuffer_pop(self) ==
    IF self.read_pos = self.write_pos THEN [self |-> self, ret |-> None]
    ELSE [ self |-> [self EXCEPT !.buffer[self.read_pos] = None,
                                 !.read_pos = (self.read_pos + 1) % RingBuffer_N(self)],
           ret |-> self.buffer[self.read_pos] ]

RingBuffer_is_empty(self) == self.read_pos = self.write_pos

RingBuffer_is_full(self) ==
    (self.write_pos + 1) % RingBuffer_N(self) = self.read_pos

\* mutant: the distance of the two positions, whichever is ahead
len_without_wrap(self) ==
    IF self.write_pos >= self.read_pos THEN self.write_pos - self.read_pos
    ELSE self.read_pos - self.write_pos

RingBuffer_len(self) ==
    IF self.write_pos >= self.read_pos THEN self.write_pos - self.read_pos
    ELSE RingBuffer_N(self) - self.read_pos + self.write_pos

RingBuffer_clear(self) ==
    [ self EXCEPT !.read_pos = 0, !.write_pos = 0,
                  !.buffer = [i \in DOMAIN self.buffer |-> None] ]

\* ---------------------------------------------- interrupt controllers (PIC)

PIC1_COMMAND == 32

PIC1_DATA == 33

PIC2_COMMAND == 160

PIC2_DATA == 161

ICW1_INIT == 17

ICW4_8086 == 1

PIC_EOI == 32

\* the unused port io_wait writes to
IO_WAIT_PORT == 128

\* an 8259A as the firmware leaves it: not inside an initialization
\* sequence, with some vector offset and some mask
Pic8259(offset, imr) ==
    [ phase |-> "ready", offset |-> offset, imr |-> imr, cascade |-> 0,
      mode |-> 0, ic4 |-> FALSE, single |-> FALSE, irr |-> {}, isr |-> {} ]

\* the lowest line in service is the one a non-specific EOI ends
EndOfInterrupt(isr) ==
    IF isr = {} THEN isr ELSE isr \ { CHOOSE l \in isr : \A m \in isr : l <= m }

\* a byte written to a controller's command port: with bit 4 set it is ICW1
\* and starts the initialization sequence (which clears the mask), PIC_EOI
\* ends the interrupt in service
Pic8259_command(chip, value) ==
    IF BitTest(value, 4)
    THEN [chip EXCEPT !.phase = "icw2", !.imr = 0, !.irr = {}, !.isr = {},
                      !.ic4 = BitTest(value, 0), !.single = BitTest(value, 1)]
    ELSE IF value = PIC_EOI THEN [chip EXCEPT !.isr = EndOfInterrupt(@)]
    ELSE chip

\* a byte written to a controller's data port: inside the initialization
\* sequence it is ICW2 (the vector offset, whose low three bits are the
\* line), ICW3 (the cascade wiring) or ICW4 (the mode); outside it is the mask
Pic8259_data(chip, value) ==
    CASE chip.phase = "icw2" ->
             [chip EXCEPT !.offset = value - (value % 8),
                          !.phase = IF ~chip.single THEN "icw3"
                                    ELSE IF chip.ic4 THEN "icw4" ELSE "ready"]
      [] chip.phase = "icw3" ->
             [chip EXCEPT !.cascade = value,
                          !.phase = IF chip.ic4 THEN "icw4" ELSE "ready"]
      [] chip.phase = "icw4" -> [chip EXCEPT !.mode = value, !.phase = "ready"]
      [] OTHER -> [chip EXCEPT !.imr = value]

outb(ps, port, value) ==
    CASE port = PIC1_COMMAND -> [ps EXCEPT ![1] = Pic8259_command(@, value)]
      [] port = PIC1_DATA -> [ps EXCEPT ![1] = Pic8259_data(@, value)]
      [] port = PIC2_COMMAND -> [ps EXCEPT ![2] = Pic8259_command(@, value)]
      [] port = PIC2_DATA -> [ps EXCEPT ![2] = Pic8259_data(@, value)]
      [] OTHER -> ps

\* reading a controller's data port gives its mask
inb(ps, port) ==
    CASE port = PIC1_DATA -> ps[1].imr
      [] port = PIC2_DATA -> ps[2].imr
      [] OTHER -> 0

RECURSIVE outb_each(_, _)
outb_each(ps, writes) ==
    IF writes = << >> THEN ps
    ELSE outb_each(outb(ps, Head(writes)[1], Head(writes)[2]), Tail(writes))

io_wait == << IO_WAIT_PORT, 0 >>

\* mutant: the vector offsets are sent before the initialization command
pic_init_offsets_first(mask1, mask2) ==
    << << PIC1_DATA, 32 >>, io_wait,
       << PIC2_DATA, 40 >>, io_wait,
       << PIC1_COMMAND, ICW1_INIT >>, io_wait,
       << PIC2_COMMAND, ICW1_INIT >>, io_wait,
       << PIC1_DATA, 4 >>, io_wait,
       << PIC2_DATA, 2 >>, io_wait,
       << PIC1_DATA, ICW4_8086 >>, io_wait,
       << PIC2_DATA, ICW4_8086 >>, io_wait,
       << PIC1_DATA, mask1 >>,
       << PIC2_DATA, mask2 >> >>

\* mutant: the saved masks are not written back
pic_init_no_restore(mask1, mask2) ==
    << << PIC1_COMMAND, ICW1_INIT >>, io_wait,
       << PIC2_COMMAND, ICW1_INIT >>, io_wait,
       << PIC1_DATA, 32 >>, io_wait,
       << PIC2_DATA, 40 >>, io_wait,
       << PIC1_DATA, 4 >>, io_wait,
       << PIC2_DATA, 2 >>, io_wait,
       << PIC1_DATA, ICW4_8086 >>, io_wait,
       << PIC2_DATA, ICW4_8086 >>, io_wait >>

\* the port writes of pic::init, in program order
pic_init_writes(mask1, mask2) ==
    << << PIC1_COMMAND, ICW1_INIT >>, io_wait,
       << PIC2_COMMAND, ICW1_INIT >>, io_wait,
       << PIC1_DATA, 32 >>, io_wait,
       << PIC2_DATA, 40 >>, io_wait,
       << PIC1_DATA, 4 >>, io_wait,
       << PIC2_DATA, 2 >>, io_wait,
       << PIC1_DATA, ICW4_8086 >>, io_wait,
       << PIC2_DATA, ICW4_8086 >>, io_wait,
       << PIC1_DATA, mask1 >>,
       << PIC2_DATA, mask2 >> >>

pic_init(ps) ==
    LET mask1 == inb(ps, PIC1_DATA)
        mask2 == inb(ps, PIC2_DATA)
    IN  outb_each(ps, pic_init_writes(mask1, mask2))

\* the port write of enable_irq
pic_enable_irq_writes(ps, irq) ==
    LET port == IF irq < 8 THEN PIC1_DATA ELSE PIC2_DATA
        value == BitClear(inb(ps, port), irq % 8)
    IN  << << port, value >> >>

pic_enable_irq(ps, irq) == outb_each(ps, pic_enable_irq_writes(ps, irq))

\* mutant: the bit is always changed on the primary controller
disable_irq_on_primary(ps, irq) ==
    << << PIC1_DATA, BitOr(inb(ps, PIC1_DATA), irq % 8) >> >>

\* the port write of disable_irq
pic_disable_irq_writes(ps, irq) ==
    LET port == IF irq < 8 THEN PIC1_DATA ELSE PIC2_DATA
        value == BitOr(inb(ps, port), irq % 8)
    IN  << << port, value >> >>

pic_disable_irq(ps, irq) == outb_each(ps, pic_disable_irq_writes(ps, irq))

\* mutant: the end of interrupt goes to the owning controller only
send_eoi_to_owner(irq) ==
    IF irq >= 8 THEN << << PIC2_COMMAND, PIC_EOI >> >>
    ELSE << << PIC1_COMMAND, PIC_EOI >> >>

\* the port writes of send_eoi, in program order
pic_send_eoi_writes(irq) ==
    (IF irq >= 8 THEN << << PIC2_COMMAND, PIC_EOI >> >> ELSE << >>)
        \o << << PIC1_COMMAND, PIC_EOI >> >>

pic_send_eoi(ps, irq) == outb_each(ps, pic_send_eoi_writes(irq))

pic_disable_all_writes == << << PIC1_DATA, 255 >>, << PIC2_DATA, 255 >> >>

pic_disable_all(ps) == outb_each(ps, pic_disable_all_writes)

\* the vector the controllers put on the bus for a hardware line
VectorOf(ps, irq) ==
    IF irq < 8 THEN ps[1].offset + irq ELSE ps[2].offset + (irq - 8)

\* the primary controller raises line irq towards the CPU: requested, not
\* masked, and no line of the same or a higher priority in service
Raised(ps, irq) ==
    /\ ps[1].phase = "ready"
    /\ irq \in ps[1].irr
    /\ ~BitTest(ps[1].imr, irq)
    /\ \A l \in ps[1].isr : l > irq

\* ------------------------------------------------------------------- IDT

IDT_ENTRIES == 256

\* handler stands for the three offset fields: the function they point to,
\* "null" for offset 0
IdtEntry_null ==
    [handler |-> "null", selector |-> 0, ist |-> 0, type_attr |-> 0, reserved |-> 0]

\* 0x08 and 0x8E: present, privilege 0, interrupt gate
IdtEntry_new(handler) ==
    [handler |-> handler, selector |-> 8, ist |-> 0, type_attr |-> 142, reserved |-> 0]

\* [IdtEntry::null(); IDT_ENTRIES]: no entry written
Idt_new == [v \in {} |-> IdtEntry_null]

\* entries[vector]
Idt_entry(table, vector) ==
    IF vector \in DOMAIN table THEN table[vector] ELSE IdtEntry_null

\* mutant: the descriptor is also written to the next vector
set_handler_and_next(table, vector, handler) ==
    [v \in DOMAIN table \cup ({vector, vector + 1} \cap (0 .. IDT_ENTRIES - 1)) |->
        IF v \in {vector, vector + 1} THEN IdtEntry_new(handler) ELSE table[v]]

Idt_set_handler(table, vector, handler) ==
    [v \in DOMAIN table \cup ({vector} \cap (0 .. IDT_ENTRIES - 1)) |->
        IF v = vector THEN IdtEntry_new(handler) ELSE table[v]]

\* the set_handler calls of idt::init, in program order
IdtHandlers ==
    << << 0, "divide_by_zero_wrapper" >>,
       << 1, "debug_wrapper" >>,
       << 3, "breakpoint_wrapper" >>,
       << 8, "double_fault_wrapper" >>,
       << 13, "general_protection_fault_wrapper" >>,
       << 14, "page_fault_wrapper" >>,
       << 33, "keyboard_wrapper" >> >>

\* the present bit of a descriptor
Present(entry) == BitTest(entry.type_attr, 7)

\* ------------------------------------------------------------------- GDT

\* a | b on u8
RECURSIVE u8_or(_, _)
u8_or(a, b) ==
    IF a = 0 THEN b
    ELSE IF b = 0 THEN a
    ELSE (IF a % 2 = 1 \/ b % 2 = 1 THEN 1 ELSE 0) + 2 * u8_or(a \div 2, b \div 2)

\* 1 << 7
PRESENT == 128

\* 0 << 5
DPL_0 == 0

\* 3 << 5
DPL_3 == 96

\* 1 << 4
DESCRIPTOR_TYPE == 16

\* 1 << 3
EXECUTABLE == 8

\* 1 << 1
RW == 2

\* 1 << 7
GRANULARITY == 128

\* 1 << 5
LONG_MODE == 32

GDT_ENTRY_COUNT == 9

KERNEL_CODE_SELECTOR == 40

KERNEL_DATA_SELECTOR == 48

GdtEntry_null ==
    [ limit_low |-> 0, base_low |-> 0, base_mid |-> 0, access |-> 0,
      granularity |-> 0, base_high |-> 0 ]

GdtEntry_new(access, flags) ==
    [ limit_low |-> 0, base_low |-> 0, base_mid |-> 0, access |-> access,
      granularity |-> flags, base_high |-> 0 ]

\* mutant: the four segments follow the null entry directly
Gdt_new_code_at_8 ==
    [ table |->
        << GdtEntry_null,
           GdtEntry_new(u8_or(u8_or(u8_or(u8_or(PRESENT, DPL_0), DESCRIPTOR_TYPE),
                                    EXECUTABLE), RW),
                        u8_or(GRANULARITY, LONG_MODE)),
           GdtEntry_new(u8_or(u8_or(u8_or(PRESENT, DPL_0), DESCRIPTOR_TYPE), RW),
                        GRANULARITY),
           GdtEntry_new(u8_or(u8_or(u8_or(u8_or(PRESENT, DPL_3), DESCRIPTOR_TYPE),
                                    EXECUTABLE), RW),
                        u8_or(GRANULARITY, LONG_MODE)),
           GdtEntry_new(u8_or(u8_or(u8_or(PRESENT, DPL_3), DESCRIPTOR_TYPE), RW),
                        GRANULARITY),
           GdtEntry_null, GdtEntry_null, GdtEntry_null, GdtEntry_null >> ]

\* Gdt::new; table[k] is entry k - 1, at byte offset 8 * (k - 1)
Gdt_new ==
    [ table |->
        << GdtEntry_null,
           GdtEntry_null,
           GdtEntry_null,
           GdtEntry_null,
           GdtEntry_null,
           GdtEntry_new(u8_or(u8_or(u8_or(u8_or(PRESENT, DPL_0), DESCRIPTOR_TYPE),
                                    EXECUTABLE), RW),
                        u8_or(GRANULARITY, LONG_MODE)),
           GdtEntry_new(u8_or(u8_or(u8_or(PRESENT, DPL_0), DESCRIPTOR_TYPE), RW),
                        GRANULARITY),
           GdtEntry_new(u8_or(u8_or(u8_or(u8_or(PRESENT, DPL_3), DESCRIPTOR_TYPE),
                                    EXECUTABLE), RW),
                        u8_or(GRANULARITY, LONG_MODE)),
           GdtEntry_new(u8_or(u8_or(u8_or(PRESENT, DPL_3), DESCRIPTOR_TYPE), RW),
                        GRANULARITY) >> ]

\* static GDT: Gdt = Gdt::new()
GDT == Gdt_new

\* size_of::<[GdtEntry; GDT_ENTRY_COUNT]>() - 1, the limit gdt::init loads
Gdt_limit == GDT_ENTRY_COUNT * 8 - 1

\* ------------------------------------------------ the callers' view (ghost)

\* the frames a successful allocation of count frames at address a hands out
FramesOf(a, count) == { a + i * FRAME_SIZE : i \in 0 .. count - 1 }

\* the held frame that contains phys_addr, if any
HeldAt(phys_addr) == { h \in held : h <= phys_addr /\ phys_addr < h + FRAME_SIZE }

Offsets == { 0, FRAME_SIZE - 1 }

\* addresses passed to deallocate_frame: every frame of every entry of the
\* memory map (usable or not), at several offsets inside the frame, the
\* first address past each entry, the address before it, and address 0
DeallocArgs ==
    {0} \cup UNION { {memory_map[k].base - 1} \cup
                     { memory_map[k].base + f * FRAME_SIZE + d :
                           f \in 0 .. (memory_map[k].length \div FRAME_SIZE),
                           d \in Offsets }
                     : k \in 1 .. Len(memory_map) }

\* ----------------------------------------------------------------- actions

InitAllocator ==
    /\ bitmap = FrameAllocator_new.bitmap
    /\ total_frames = FrameAllocator_new.total_frames
    /\ used_frames = FrameAllocator_new.used_frames
    /\ regions = FrameAllocator_new.regions
    /\ region_count = FrameAllocator_new.region_count
    /\ hhdm_offset = FrameAllocator_new.hhdm_offset
    /\ panicked = FALSE
    /\ memory_map = << >>
    /\ initialized = FALSE
    /\ held = {}
    /\ fresh_allocs = -1
    /\ last = [op |-> "new", arg |-> None, ret |-> None, changed |-> FALSE]

InitSpinlock ==
    /\ locked = Spinlock_new.locked
    /\ data = Spinlock_new.data
    /\ ctx = [c \in Contexts |-> "idle"]
    /\ local = [c \in Contexts |-> 0]
    /\ cycles = [c \in Contexts |-> 0]
    /\ overtaken = [c \in Contexts |-> 0]
    /\ fa_call = [c \in Contexts |-> [op |-> "none", arg |-> None, ret |-> None]]
    /\ fa_seen = [c \in Contexts |-> FrameAllocator_new]

\* the machine when the boot loader enters _start: interrupts disabled, the
\* kernel's tables not loaded, the controllers at the firmware's vector
\* offsets (8 and 0x70) with the masks mask1 and mask2
InitMachine(mask1, mask2) ==
    /\ pc = 1
    /\ interrupt_flag = FALSE
    /\ gdt_loaded = FALSE
    /\ idt = Idt_new
    /\ idtr_loaded = FALSE
    /\ pics = << Pic8259(8, mask1), Pic8259(112, mask2) >>
    /\ ps2 = [data |-> 0, full |-> FALSE]
    /\ keys_pressed = 0
    /\ kb_locked = Spinlock_new.locked
    /\ kb_buffer = RingBuffer_new(BUFFER_SIZE)
    /\ irq_pc = "idle"
    /\ scan_code = 0
    /\ reader_pc = "none"
    /\ read_ret = None
    /\ misdelivered = FALSE
    /\ eois = 0
    /\ stored = None

\* no call on the pic or idt module made yet
InitArch ==
    /\ arch_calls = 0
    /\ arch_last = [op |-> "none", arg |-> None, writes |-> << >>, before |-> None]

\* a RingBuffer<T, N> as RingBuffer::new() makes it
InitRing(N) ==
    /\ ring = RingBuffer_new(N)
    /\ pushed = << >>
    /\ popped = << >>
    /\ ring_last = [op |-> "new", arg |-> None, ret |-> None]
    /\ cleared = FALSE

\* the registers exception_wrapper! saves, in the order of its pushes
SavedRegisters == << "rax", "rcx", "rdx", "rsi", "rdi", "r8", "r9", "r10", "r11" >>

\* mutant: the pops are written in the order of the pushes
pops_in_push_order == SavedRegisters

\* the registers exception_wrapper! restores, in the order of its pops
RestoredRegisters == << "r11", "r10", "r9", "r8", "rdi", "rsi", "rdx", "rcx", "rax" >>

RegisterNames == { SavedRegisters[k] : k \in 1 .. Len(SavedRegisters) }

\* what the interrupted code has in the caller-saved registers (a different
\* value in each)
InterruptedRegs ==
    [ r \in RegisterNames |-> CHOOSE k \in 1 .. Len(SavedRegisters) : SavedRegisters[k] = r ]

\* the registers after a call of compiled code, which is free to use them
ClobberedRegs == [ r \in RegisterNames |-> 0 ]

\* push of the registers named, in order
RECURSIVE push_each(_, _, _)
push_each(stack, file, names) ==
    IF names = << >> THEN stack
    ELSE push_each(Append(stack, [kind |-> "reg", value |-> file[Head(names)]]),
                   file, Tail(names))

\* pop into the registers named, in order: [stack, regs] afterwards
RECURSIVE pop_each(_, _, _)
pop_each(stack, file, names) ==
    IF names = << >> THEN [stack |-> stack, regs |-> file]
    ELSE pop_each(SubSeq(stack, 1, Len(stack) - 1),
                  [file EXCEPT ![Head(names)] = stack[Len(stack)].value],
                  Tail(names))

\* the CPU runs kernel code, no exception taken
InitException ==
    /\ exc_vector = -1
    /\ exc_pc = [at |-> "idle", stmt |-> 0]
    /\ regs = InterruptedRegs
    /\ exc_stack = << >>
    /\ console = << >>
    /\ exceptions = 0

InitUnits == InitArch /\ InitRing(BUFFER_SIZE) /\ InitException

Init ==
    /\ InitAllocator
    /\ InitSpinlock
    /\ InitMachine(255, 255)
    /\ InitUnits

\* write the allocator back and record the call
Commit(out, op, arg) ==
    /\ bitmap' = out.self.bitmap
    /\ total_frames' = out.self.total_frames
    /\ used_frames' = out.self.used_frames
    /\ regions' = out.self.regions
    /\ region_count' = out.self.region_count
    /\ hhdm_offset' = out.self.hhdm_offset
    /\ panicked' = out.panic
    /\ last' = [op |-> op, arg |-> arg, ret |-> out.ret, changed |-> out.self # Self]

\* frame_allocator::init, called once on the boot path
init ==
    /\ ~panicked
    /\ ~initialized
    /\ \E map \in MemoryMaps, hhdm \in HhdmOffsets :
          /\ Commit(Ret(FrameAllocator_init(Self, map, hhdm), None), "init", None)
          /\ memory_map' = map
    /\ initialized' = TRUE
    /\ fresh_allocs' = 0
    /\ UNCHANGED << held, outside_allocator >>

allocate_frame ==
    /\ ~panicked
    /\ LET out == FrameAllocator_allocate_frame(Self) IN
          /\ Commit(out, "allocate_frame", None)
          /\ held' = IF out.ret = None THEN held ELSE held \cup FramesOf(out.ret[1], 1)
    /\ fresh_allocs' = IF 0 <= fresh_allocs /\ fresh_allocs < total_frames
                       THEN fresh_allocs + 1 ELSE -1
    /\ UNCHANGED << memory_map, initialized, outside_allocator >>

allocate_contiguous_frames ==
    /\ ~panicked
    /\ \E count \in 0 .. MaxCount :
          LET out == FrameAllocator_allocate_contiguous_frames(Self, count) IN
             /\ Commit(out, "allocate_contiguous_frames", Some(count))
             /\ held' = IF out.ret = None THEN held
                        ELSE held \cup FramesOf(out.ret[1], count)
    /\ fresh_allocs' = -1
    /\ UNCHANGED << memory_map, initialized, outside_allocator >>

deallocate_frame ==
    /\ ~panicked
    /\ \E phys_addr \in DeallocArgs, overflow_checks \in BOOLEAN :
          /\ Commit(FrameAllocator_deallocate_frame(Self, phys_addr, overflow_checks),
                    "deallocate_frame", Some(phys_addr))
          /\ held' = held \ HeldAt(phys_addr)
    /\ fresh_allocs' = -1
    /\ UNCHANGED << memory_map, initialized, outside_allocator >>

stats ==
    /\ ~panicked
    /\ \E overflow_checks \in BOOLEAN :
          Commit(FrameAllocator_stats(Self, overflow_checks), "stats", None)
    /\ UNCHANGED << memory_map, initialized, held, fresh_allocs, outside_allocator >>

Next ==
    \/ init
    \/ allocate_frame
    \/ allocate_contiguous_frames
    \/ deallocate_frame
    \/ stats

Spec == Init /\ [][Next]_vars

\* frame_allocator::init called again on an allocator that is already set
\* up: the function is public and nothing in it refuses a second call
reinit ==
    /\ ~panicked
    /\ initialized
    /\ \E map \in MemoryMaps, hhdm \in HhdmOffsets :
          /\ Commit(Ret(FrameAllocator_init(Self, map, hhdm), None), "init", None)
          /\ memory_map' = map
    /\ fresh_allocs' = -1
    /\ UNCHANGED << initialized, held, outside_allocator >>

NextReinit ==
    \/ init
    \/ reinit
    \/ allocate_frame
    \/ stats

\* the allocator under callers that allocate single frames and may call init
\* more than once
SpecReinit == Init /\ [][NextReinit]_vars

\* ------------------------------------------- two contexts on one Spinlock

\* a context calls lock()
call_lock(c) ==
    /\ ctx[c] = "idle"
    /\ cycles[c] < MaxCycles
    /\ ctx' = [ctx EXCEPT ![c] = "lock"]
    /\ overtaken' = [overtaken EXCEPT ![c] = 0]
    /\ UNCHANGED << locked, data, local, cycles, outside_lock >>

\* the contexts other than c that are in lock() see c get the guard
Overtakes(c) ==
    [ d \in Contexts |-> IF d # c /\ ctx[d] \in { "lock", "spin" }
                          THEN overtaken[d] + 1 ELSE overtaken[d] ]

\* mutant: the flag is stored without being compared
lock_without_compare(c) ==
    /\ ctx[c] = "lock"
    /\ locked' = TRUE
    /\ ctx' = [ctx EXCEPT ![c] = "guard"]
    /\ UNCHANGED << data, local, cycles, overtaken, outside_lock >>

\* Spinlock::lock, one turn of the while loop's condition: the compare
\* exchange; on success lock() returns the guard
Spinlock_lock(c) ==
    /\ ctx[c] = "lock"
    /\ \E out \in compare_exchange_weak(locked, FALSE, TRUE) :
          /\ locked' = out.stored
          /\ ctx' = [ctx EXCEPT ![c] = IF out.is_err THEN "spin" ELSE "guard"]
          /\ overtaken' = IF out.is_err THEN overtaken ELSE Overtakes(c)
    /\ UNCHANGED << data, local, cycles, outside_lock >>

\* the body of the while loop: core::hint::spin_loop()
spin_loop(c) ==
    /\ ctx[c] = "spin"
    /\ ctx' = [ctx EXCEPT ![c] = "lock"]
    /\ UNCHANGED << locked, data, local, cycles, overtaken, outside_lock >>

\* the holder reads the protected value through the guard
SpinlockGuard_deref(c) ==
    /\ ctx[c] = "guard"
    /\ local' = [local EXCEPT ![c] = data]
    /\ ctx' = [ctx EXCEPT ![c] = "modify"]
    /\ UNCHANGED << locked, data, cycles, overtaken, outside_lock >>

\* the holder writes the protected value through the guard
SpinlockGuard_deref_mut(c) ==
    /\ ctx[c] = "modify"
    /\ data' = local[c] + 1
    /\ ctx' = [ctx EXCEPT ![c] = "drop"]
    /\ UNCHANGED << locked, local, cycles, overtaken, outside_lock >>

\* mutant: the guard goes away without storing the flag
drop_without_store(c) ==
    /\ ctx[c] = "drop"
    /\ ctx' = [ctx EXCEPT ![c] = "idle"]
    /\ cycles' = [cycles EXCEPT ![c] = @ + 1]
    /\ UNCHANGED << locked, data, local, overtaken, outside_lock >>

\* SpinlockGuard::drop
SpinlockGuard_drop(c) ==
    /\ ctx[c] = "drop"
    /\ locked' = FALSE
    /\ ctx' = [ctx EXCEPT ![c] = "idle"]
    /\ cycles' = [cycles EXCEPT ![c] = @ + 1]
    /\ UNCHANGED << data, local, overtaken, outside_lock >>

\* the steps of a context that holds a guard
Holder(c) ==
    \/ SpinlockGuard_deref(c)
    \/ SpinlockGuard_deref_mut(c)
    \/ SpinlockGuard_drop(c)

NextLock ==
    \E c \in Contexts :
        \/ call_lock(c)
        \/ Spinlock_lock(c)
        \/ spin_loop(c)
        \/ Holder(c)

\* Both contexts run: a context that holds a guard goes on to use it and to
\* drop it at the end of its statement. Nothing is assumed about which
\* waiter wins the flag.
SpecLock ==
    /\ Init
    /\ [][NextLock]_vars
    /\ \A c \in Contexts : WF_vars(Holder(c))

\* lock() returns the guard to c
Acquire(c) == Spinlock_lock(c) /\ ctx'[c] = "guard"

\* the loop of lock(): the compare exchange and the spin hint
Spinner(c) == Spinlock_lock(c) \/ spin_loop(c)

\* Both contexts run: a holder goes on to drop its guard, a context in lock()
\* goes on executing its loop, and the compare exchange, which may fail
\* spuriously, does not fail for ever on a flag it finds clear again and
\* again. Nothing is assumed about which waiter wins the flag.
SpecProgress ==
    /\ Init
    /\ [][NextLock]_vars
    /\ \A c \in Contexts : WF_vars(Holder(c))
    /\ \A c \in Contexts : WF_vars(Spinner(c))
    /\ \A c \in Contexts : SF_vars(Acquire(c))

\* ------------------------------------- two contexts on FRAME_ALLOCATOR

\* Each public function of frame_allocator.rs is FRAME_ALLOCATOR.lock()
\* followed by a method on the guard; the guard is a temporary dropped at
\* the end of the statement (at the end of the function in stats). Under the
\* guard a method reads the allocator and then writes it; stats reads
\* total_frames() and used_frames() and then free_frames().

\* run lengths asked of allocate_contiguous_frames by the two contexts
SharedCounts == { 1, 2 }

\* the memory maps init is called with here: those of three entries (two
\* usable regions around a reserved hole)
SharedMaps == { map \in MemoryMaps : Len(map) = 3 }

\* a context calls one of the public functions; init is called once
frame_allocator_call(c) ==
    /\ ~panicked
    /\ ctx[c] = "idle"
    /\ cycles[c] < MaxCycles
    /\ \/ /\ ~initialized
          /\ \A d \in Contexts : ctx[d] = "idle" \/ fa_call[d].op # "init"
          /\ fa_call' = [fa_call EXCEPT ![c] = [op |-> "init", arg |-> None, ret |-> None]]
       \/ \E op \in { "allocate_frame", "stats" } :
             fa_call' = [fa_call EXCEPT ![c] = [op |-> op, arg |-> None, ret |-> None]]
       \/ \E count \in SharedCounts :
             fa_call' = [fa_call EXCEPT ![c] = [op |-> "allocate_contiguous_frames",
                                                 arg |-> Some(count), ret |-> None]]
       \/ \E phys_addr \in held \cup {0} :
             fa_call' = [fa_call EXCEPT ![c] = [op |-> "deallocate_frame",
                                                 arg |-> Some(phys_addr), ret |-> None]]
    /\ ctx' = [ctx EXCEPT ![c] = "lock"]
    /\ UNCHANGED << overtaken, locked, data, local, cycles, fa_seen, allocator_vars,
                    kernel_vars, arch_vars, ring_vars, exception_vars >>

\* mutant: lock() returns a guard whatever the flag holds
FRAME_ALLOCATOR_lock_unchecked(c) ==
    /\ ~panicked
    /\ ctx[c] = "lock"
    /\ locked' = TRUE
    /\ ctx' = [ctx EXCEPT ![c] = "guard"]
    /\ UNCHANGED << overtaken, data, local, cycles, caller_vars, allocator_vars,
                    kernel_vars, arch_vars, ring_vars, exception_vars >>

\* FRAME_ALLOCATOR.lock(): one compare exchange of Spinlock::lock
FRAME_ALLOCATOR_lock(c) ==
    /\ ~panicked
    /\ ctx[c] = "lock"
    /\ \E out \in compare_exchange_weak(locked, FALSE, TRUE) :
          /\ locked' = out.stored
          /\ ctx' = [ctx EXCEPT ![c] = IF out.is_err THEN "spin" ELSE "guard"]
    /\ UNCHANGED << overtaken, data, local, cycles, caller_vars, allocator_vars,
                    kernel_vars, arch_vars, ring_vars, exception_vars >>

\* the body of lock()'s while loop
FRAME_ALLOCATOR_spin(c) ==
    /\ ~panicked
    /\ ctx[c] = "spin"
    /\ ctx' = [ctx EXCEPT ![c] = "lock"]
    /\ UNCHANGED << overtaken, locked, data, local, cycles, caller_vars, allocator_vars,
                    kernel_vars, arch_vars, ring_vars, exception_vars >>

\* the method starts on the allocator behind the guard: what it reads
method_reads(c) ==
    /\ ~panicked
    /\ ctx[c] = "guard"
    /\ fa_seen' = [fa_seen EXCEPT ![c] = Self]
    /\ ctx' = [ctx EXCEPT ![c] = "modify"]
    /\ UNCHANGED << overtaken, locked, data, local, cycles, fa_call, allocator_vars,
                    kernel_vars, arch_vars, ring_vars, exception_vars >>

\* what the method of a call makes of the allocator self
MethodOf(call, self, map, hhdm, overflow_checks) ==
    CASE call.op = "init" -> Ret(FrameAllocator_init(self, map, hhdm), None)
      [] call.op = "allocate_frame" -> FrameAllocator_allocate_frame(self)
      [] call.op = "allocate_contiguous_frames" ->
             FrameAllocator_allocate_contiguous_frames(self, call.arg[1])
      [] call.op = "deallocate_frame" ->
             FrameAllocator_deallocate_frame(self, call.arg[1], overflow_checks)
      [] call.op = "stats" -> FrameAllocator_stats(self, overflow_checks)

\* the frames a call that returned ret hands to its caller
Handed(call, ret) ==
    IF ret = None \/ call.op \notin { "allocate_frame", "allocate_contiguous_frames" }
    THEN {}
    ELSE FramesOf(ret[1], IF call.op = "allocate_frame" THEN 1 ELSE call.arg[1])

\* the method finishes: it writes the allocator as it made it from what it
\* read and returns; stats returns the two counters it read with
\* free_frames() of the allocator behind the guard
method_returns(c) ==
    /\ ~panicked
    /\ ctx[c] = "modify"
    /\ \E map \in SharedMaps, hhdm \in HhdmOffsets, overflow_checks \in BOOLEAN :
          LET call == fa_call[c]
              free == FrameAllocator_free_frames(Self, overflow_checks)
              out == IF call.op # "stats"
                     THEN MethodOf(call, fa_seen[c], map, hhdm, overflow_checks)
                     ELSE IF free.panic THEN Panic(Self)
                     ELSE Ret(Self, << fa_seen[c].total_frames,
                                       fa_seen[c].used_frames, free.val >>)
          IN  /\ Commit(out, call.op, call.arg)
              /\ fa_call' = [fa_call EXCEPT ![c].ret = out.ret]
              /\ memory_map' = IF call.op = "init" THEN map ELSE memory_map
              /\ initialized' = (initialized \/ call.op = "init")
              /\ held' = IF call.op = "deallocate_frame"
                         THEN held \ HeldAt(call.arg[1])
                         ELSE held \cup Handed(call, out.ret)
    /\ fresh_allocs' = -1
    /\ ctx' = [ctx EXCEPT ![c] = "drop"]
    /\ UNCHANGED << overtaken, locked, data, local, cycles, fa_seen,
                    kernel_vars, arch_vars, ring_vars, exception_vars >>

\* the guard is dropped when the function returns
FRAME_ALLOCATOR_drop(c) ==
    /\ ~panicked
    /\ ctx[c] = "drop"
    /\ locked' = FALSE
    /\ ctx' = [ctx EXCEPT ![c] = "idle"]
    /\ cycles' = [cycles EXCEPT ![c] = @ + 1]
    /\ UNCHANGED << overtaken, data, local, caller_vars, allocator_vars,
                    kernel_vars, arch_vars, ring_vars, exception_vars >>

NextShared ==
    \E c \in Contexts :
        \/ frame_allocator_call(c)
        \/ FRAME_ALLOCATOR_lock(c)
        \/ FRAME_ALLOCATOR_spin(c)
        \/ method_reads(c)
        \/ method_returns(c)
        \/ FRAME_ALLOCATOR_drop(c)

\* the public functions of frame_allocator.rs called from two contexts
SpecShared == Init /\ [][NextShared]_vars

\* ------------------------------------------------------- the boot path

\* scaled from 64: _start hands init at most this many memory-map entries
MAP_SLICE_LEN == 3

\* &map_slice[..map_count] of _start: the entries 0 .. entry_count.min(64) - 1
\* of the boot loader's memory map, whatever their type
boot_map_slice(map) ==
    LET map_count == IF Len(map) < MAP_SLICE_LEN THEN Len(map) ELSE MAP_SLICE_LEN
    IN  SubSeq(map, 1, map_count)

\* the masks the firmware may leave in the two controllers
InitialMasks1 == { 255, 253, 184 }

InitialMasks2 == { 255, 0 }

\* the scan codes the keyboard sends
ScanCodes == { 30, 48 }

\* mutant: interrupts are enabled before the tables are set up
BootSteps_sti_first ==
    << "serial_init", "vga_init", "sti", "gdt_init", "idt_init", "pic_init",
       "keyboard_init", "frame_allocator_init", "stats", "halt_loop" >>

\* the steps of _start, in program order (the console output between them
\* is left out)
BootSteps ==
    << "serial_init", "vga_init", "gdt_init", "idt_init", "pic_init",
       "keyboard_init", "sti", "frame_allocator_init", "stats", "halt_loop" >>

\* _start is about to run this step
At(step) == BootSteps[pc] = step

\* _start has run this step
Done(step) == \E k \in 1 .. pc - 1 : BootSteps[k] = step

\* the vectors whose descriptor has been written
Installed(table) ==
    { v \in 0 .. IDT_ENTRIES - 1 : Idt_entry(table, v) # IdtEntry_null }

\* the normal path executes: no handler is running on the single core and
\* the kernel has not stopped in a fault or in the panic loop
NormalPathRuns == irq_pc = "idle" /\ ~misdelivered /\ ~panicked

InitKernel ==
    /\ InitAllocator
    /\ InitSpinlock
    /\ \E mask1 \in InitialMasks1, mask2 \in InitialMasks2 : InitMachine(mask1, mask2)
    /\ InitUnits

\* the parts of the machine a step of the normal path may leave alone
handler_vars == << irq_pc, scan_code, misdelivered, eois, stored >>

keyboard_vars == << ps2, keys_pressed, kb_locked, kb_buffer, reader_pc, read_ret >>

table_vars == << gdt_loaded, idt, idtr_loaded >>

boot_serial_init ==
    /\ At("serial_init") /\ NormalPathRuns
    /\ pc' = pc + 1
    /\ UNCHANGED << interrupt_flag, table_vars, pics, keyboard_vars, handler_vars,
                    allocator_vars, outside_kernel >>

boot_vga_init ==
    /\ At("vga_init") /\ NormalPathRuns
    /\ pc' = pc + 1
    /\ UNCHANGED << interrupt_flag, table_vars, pics, keyboard_vars, handler_vars,
                    allocator_vars, outside_kernel >>

boot_gdt_init ==
    /\ At("gdt_init") /\ NormalPathRuns
    /\ gdt_loaded' = TRUE
    /\ pc' = pc + 1
    /\ UNCHANGED << interrupt_flag, idt, idtr_loaded, pics, keyboard_vars,
                    handler_vars, allocator_vars, outside_kernel >>

\* idt::init, one IDT.set_handler call
boot_idt_set_handler ==
    /\ At("idt_init") /\ NormalPathRuns
    /\ Cardinality(Installed(idt)) < Len(IdtHandlers)
    /\ LET call == IdtHandlers[Cardinality(Installed(idt)) + 1]
       IN  idt' = Idt_set_handler(idt, call[1], call[2])
    /\ UNCHANGED << pc, interrupt_flag, gdt_loaded, idtr_loaded, pics,
                    keyboard_vars, handler_vars, allocator_vars, outside_kernel >>

\* idt::init, IDT.load()
boot_idt_load ==
    /\ At("idt_init") /\ NormalPathRuns
    /\ Cardinality(Installed(idt)) = Len(IdtHandlers)
    /\ idtr_loaded' = TRUE
    /\ pc' = pc + 1
    /\ UNCHANGED << interrupt_flag, gdt_loaded, idt, pics, keyboard_vars,
                    handler_vars, allocator_vars, outside_kernel >>

boot_pic_init ==
    /\ At("pic_init") /\ NormalPathRuns
    /\ pics' = pic_init(pics)
    /\ pc' = pc + 1
    /\ UNCHANGED << interrupt_flag, table_vars, keyboard_vars, handler_vars,
                    allocator_vars, outside_kernel >>

\* keyboard::init: unmask IRQ 1, then read the data port until it is empty
boot_keyboard_init ==
    /\ At("keyboard_init") /\ NormalPathRuns
    /\ pics' = pic_enable_irq(pics, 1)
    /\ ps2' = [ps2 EXCEPT !.full = FALSE]
    /\ pc' = pc + 1
    /\ UNCHANGED << interrupt_flag, table_vars, keys_pressed, kb_locked, kb_buffer,
                    reader_pc, read_ret, handler_vars, allocator_vars, outside_kernel >>

boot_sti ==
    /\ At("sti") /\ NormalPathRuns
    /\ interrupt_flag' = TRUE
    /\ pc' = pc + 1
    /\ UNCHANGED << table_vars, pics, keyboard_vars, handler_vars,
                    allocator_vars, outside_kernel >>

\* the first MAP_SLICE_LEN entries of the boot memory map go to
\* frame_allocator::init
boot_frame_allocator_init ==
    /\ At("frame_allocator_init") /\ NormalPathRuns
    /\ \E map \in MemoryMaps, hhdm \in HhdmOffsets :
          LET map_slice == boot_map_slice(map)
          IN  /\ Commit(Ret(FrameAllocator_init(Self, map_slice, hhdm), None), "init", None)
              /\ memory_map' = map_slice
    /\ initialized' = TRUE
    /\ fresh_allocs' = 0
    /\ pc' = pc + 1
    /\ UNCHANGED << held, interrupt_flag, table_vars, pics, keyboard_vars,
                    handler_vars, outside_kernel >>

boot_stats ==
    /\ At("stats") /\ NormalPathRuns
    /\ \E overflow_checks \in BOOLEAN :
          Commit(FrameAllocator_stats(Self, overflow_checks), "stats", None)
    /\ pc' = pc + 1
    /\ UNCHANGED << memory_map, initialized, held, fresh_allocs, interrupt_flag,
                    table_vars, pics, keyboard_vars, handler_vars, outside_kernel >>

\* ------------------------------------------ keyboard: device and handler

\* a key is pressed: the controller puts the scan code in its output buffer
\* and requests IRQ 1
key_press ==
    /\ keys_pressed < MaxKeys
    /\ ~ps2.full
    /\ \E code \in ScanCodes : ps2' = [data |-> code, full |-> TRUE]
    /\ keys_pressed' = keys_pressed + 1
    /\ pics' = [pics EXCEPT ![1].irr = @ \cup {1}]
    /\ UNCHANGED << pc, interrupt_flag, table_vars, kb_locked, kb_buffer, reader_pc,
                    read_ret, handler_vars, allocator_vars, outside_kernel >>

\* the function the keyboard trampoline calls: it calls
\* keyboard::handle_interrupt, whose first step reads the data port
keyboard_interrupt_handler == "inb"

\* the CPU takes IRQ 1 at an instruction boundary of the normal path: the
\* controller moves the line into service and supplies the vector, the
\* interrupt gate clears the interrupt flag and the trampoline runs (the
\* gate is followed by its present bit and entry point; the code segment
\* its selector names is not looked up)
interrupt_dispatch ==
    /\ interrupt_flag
    /\ irq_pc = "idle" /\ ~misdelivered
    /\ Raised(pics, 1)
    /\ pics' = [pics EXCEPT ![1].irr = @ \ {1}, ![1].isr = @ \cup {1}]
    /\ LET entry == Idt_entry(idt, VectorOf(pics, 1)) IN
          IF idtr_loaded /\ Present(entry) /\ entry.handler = "keyboard_wrapper"
          THEN /\ interrupt_flag' = FALSE
               /\ irq_pc' = keyboard_interrupt_handler
               /\ UNCHANGED misdelivered
          ELSE /\ misdelivered' = TRUE
               /\ UNCHANGED << interrupt_flag, irq_pc >>
    /\ eois' = 0
    /\ UNCHANGED << pc, table_vars, keyboard_vars, scan_code, stored, allocator_vars,
                    outside_kernel >>

\* keyboard::handle_interrupt: let scan_code = inb(PS2_DATA_PORT)
handle_interrupt_inb ==
    /\ irq_pc = "inb"
    /\ scan_code' = ps2.data
    /\ ps2' = [ps2 EXCEPT !.full = FALSE]
    /\ irq_pc' = "lock"
    /\ UNCHANGED << pc, interrupt_flag, table_vars, pics, keys_pressed, kb_locked,
                    kb_buffer, reader_pc, read_ret, misdelivered, eois, stored, allocator_vars,
                    outside_kernel >>

\* KEYBOARD_BUFFER.lock(): the compare exchange
handle_interrupt_lock ==
    /\ irq_pc = "lock"
    /\ \E out \in compare_exchange_weak(kb_locked, FALSE, TRUE) :
          /\ kb_locked' = out.stored
          /\ irq_pc' = IF out.is_err THEN "spin" ELSE "push"
    /\ UNCHANGED << pc, interrupt_flag, table_vars, pics, ps2, keys_pressed,
                    kb_buffer, reader_pc, read_ret, scan_code, misdelivered, eois, stored,
                    allocator_vars, outside_kernel >>

handle_interrupt_spin ==
    /\ irq_pc = "spin"
    /\ irq_pc' = "lock"
    /\ UNCHANGED << pc, interrupt_flag, table_vars, pics, keyboard_vars, scan_code,
                    misdelivered, eois, stored, allocator_vars, outside_kernel >>

\* .push(scan_code), its result is not looked at
\* mutant: a full buffer gives up its oldest item to take the new scan code
handle_interrupt_push_over_oldest ==
    /\ irq_pc = "push"
    /\ LET out == RingBuffer_push(kb_buffer, scan_code) IN
          /\ kb_buffer' = IF out.ret THEN out.self
                          ELSE RingBuffer_push(RingBuffer_pop(kb_buffer).self,
                                               scan_code).self
          /\ stored' = TRUE
    /\ irq_pc' = "drop"
    /\ UNCHANGED << pc, interrupt_flag, table_vars, pics, ps2, keys_pressed,
                    kb_locked, reader_pc, read_ret, scan_code, misdelivered, eois,
                    allocator_vars, outside_kernel >>

handle_interrupt_push ==
    /\ irq_pc = "push"
    /\ LET out == RingBuffer_push(kb_buffer, scan_code) IN
          /\ kb_buffer' = out.self
          /\ stored' = out.ret
    /\ irq_pc' = "drop"
    /\ UNCHANGED << pc, interrupt_flag, table_vars, pics, ps2, keys_pressed,
                    kb_locked, reader_pc, read_ret, scan_code, misdelivered, eois,
                    allocator_vars, outside_kernel >>

\* the guard is dropped at the end of the statement
handle_interrupt_drop ==
    /\ irq_pc = "drop"
    /\ kb_locked' = FALSE
    /\ irq_pc' = "send_eoi"
    /\ UNCHANGED << pc, interrupt_flag, table_vars, pics, ps2, keys_pressed,
                    kb_buffer, reader_pc, read_ret, scan_code, misdelivered, eois, stored,
                    allocator_vars, outside_kernel >>

\* mutant: the end of interrupt is sent only for a scan code that was stored
send_eoi_if_stored ==
    /\ irq_pc = "send_eoi"
    /\ pics' = IF stored THEN pic_send_eoi(pics, 1) ELSE pics
    /\ eois' = IF stored THEN eois + 1 ELSE eois
    /\ irq_pc' = "iretq"
    /\ UNCHANGED << pc, interrupt_flag, table_vars, keyboard_vars, scan_code,
                    misdelivered, stored, allocator_vars, outside_kernel >>

\* pic::send_eoi(1)
handle_interrupt_send_eoi ==
    /\ irq_pc = "send_eoi"
    /\ pics' = pic_send_eoi(pics, 1)
    /\ eois' = eois + 1
    /\ irq_pc' = "iretq"
    /\ UNCHANGED << pc, interrupt_flag, table_vars, keyboard_vars, scan_code,
                    misdelivered, stored, allocator_vars, outside_kernel >>

\* the trampoline returns: iretq restores the flags of the interrupted path
trampoline_iretq ==
    /\ irq_pc = "iretq"
    /\ interrupt_flag' = TRUE
    /\ irq_pc' = "idle"
    /\ UNCHANGED << pc, table_vars, pics, keyboard_vars, scan_code, misdelivered, eois, stored,
                    allocator_vars, outside_kernel >>

\* --------------------------------------- keyboard: the normal path reads

\* kernel code past the boot steps polls the keyboard (shell::run calls
\* read_key, which calls read_scancode)
read_scancode_call ==
    /\ At("halt_loop") /\ NormalPathRuns
    /\ reader_pc = "none"
    /\ reader_pc' = "lock"
    /\ UNCHANGED << pc, interrupt_flag, table_vars, pics, ps2, keys_pressed,
                    kb_locked, kb_buffer, read_ret, handler_vars, allocator_vars,
                    outside_kernel >>

\* KEYBOARD_BUFFER.lock(): the compare exchange
read_scancode_lock ==
    /\ NormalPathRuns
    /\ reader_pc = "lock"
    /\ \E out \in compare_exchange_weak(kb_locked, FALSE, TRUE) :
          /\ kb_locked' = out.stored
          /\ reader_pc' = IF out.is_err THEN "spin" ELSE "pop"
    /\ UNCHANGED << pc, interrupt_flag, table_vars, pics, ps2, keys_pressed,
                    kb_buffer, read_ret, handler_vars, allocator_vars, outside_kernel >>

read_scancode_spin ==
    /\ NormalPathRuns
    /\ reader_pc = "spin"
    /\ reader_pc' = "lock"
    /\ UNCHANGED << pc, interrupt_flag, table_vars, pics, ps2, keys_pressed,
                    kb_locked, kb_buffer, read_ret, handler_vars, allocator_vars,
                    outside_kernel >>

\* .pop()
read_scancode_pop ==
    /\ NormalPathRuns
    /\ reader_pc = "pop"
    /\ LET out == RingBuffer_pop(kb_buffer) IN
          /\ kb_buffer' = out.self
          /\ read_ret' = out.ret
    /\ reader_pc' = "drop"
    /\ UNCHANGED << pc, interrupt_flag, table_vars, pics, ps2, keys_pressed,
                    kb_locked, handler_vars, allocator_vars, outside_kernel >>

\* the guard is dropped when read_scancode returns
read_scancode_drop ==
    /\ NormalPathRuns
    /\ reader_pc = "drop"
    /\ kb_locked' = FALSE
    /\ reader_pc' = "none"
    /\ UNCHANGED << pc, interrupt_flag, table_vars, pics, ps2, keys_pressed,
                    kb_buffer, read_ret, handler_vars, allocator_vars, outside_kernel >>

NextKernel ==
    \/ boot_serial_init
    \/ boot_vga_init
    \/ boot_gdt_init
    \/ boot_idt_set_handler
    \/ boot_idt_load
    \/ boot_pic_init
    \/ boot_keyboard_init
    \/ boot_sti
    \/ boot_frame_allocator_init
    \/ boot_stats
    \/ key_press
    \/ interrupt_dispatch
    \/ handle_interrupt_inb
    \/ handle_interrupt_lock
    \/ handle_interrupt_spin
    \/ handle_interrupt_push
    \/ handle_interrupt_drop
    \/ handle_interrupt_send_eoi
    \/ trampoline_iretq
    \/ read_scancode_call
    \/ read_scancode_lock
    \/ read_scancode_spin
    \/ read_scancode_pop
    \/ read_scancode_drop

\* the kernel from the entry of _start on, with the keyboard attached
SpecKernel == InitKernel /\ [][NextKernel]_vars

\* ------------------------------------- callers of the pic and idt modules

\* irq: u8, the lines the two controllers have
Irqs == 0 .. 15

\* the lines whose interrupt the CPU acknowledges: the keyboard on the
\* primary controller, the mouse on the secondary
ServicedIrqs == { 1, 12 }

\* index: u8, the vectors set_handler is called with
Vectors == { 0, 33, 255 }

Wrappers == { "keyboard_wrapper", "debug_wrapper" }

\* what a call on the pic or idt module leaves alone
outside_arch == << allocator_vars, lock_vars, caller_vars, ring_vars,
                   exception_vars, pc,
                   interrupt_flag, gdt_loaded, idtr_loaded, keyboard_vars,
                   handler_vars >>

\* the masks of the two controllers
Masks(ps) == << ps[1].imr, ps[2].imr >>

ArchCall(op, arg, writes) ==
    /\ arch_calls < MaxCalls
    /\ arch_calls' = arch_calls + 1
    /\ arch_last' = [op |-> op, arg |-> arg, writes |-> writes, before |-> Masks(pics)]

call_pic_init ==
    /\ ArchCall("init", None,
                pic_init_writes(inb(pics, PIC1_DATA), inb(pics, PIC2_DATA)))
    /\ pics' = pic_init(pics)
    /\ UNCHANGED << idt, outside_arch >>

call_enable_irq ==
    \E irq \in Irqs :
       /\ ArchCall("enable_irq", irq, pic_enable_irq_writes(pics, irq))
       /\ pics' = pic_enable_irq(pics, irq)
       /\ UNCHANGED << idt, outside_arch >>

call_disable_irq ==
    \E irq \in Irqs :
       /\ ArchCall("disable_irq", irq, pic_disable_irq_writes(pics, irq))
       /\ pics' = pic_disable_irq(pics, irq)
       /\ UNCHANGED << idt, outside_arch >>

call_send_eoi ==
    \E irq \in Irqs :
       /\ ArchCall("send_eoi", irq, pic_send_eoi_writes(irq))
       /\ pics' = pic_send_eoi(pics, irq)
       /\ UNCHANGED << idt, outside_arch >>

call_disable_all ==
    /\ ArchCall("disable_all", None, pic_disable_all_writes)
    /\ pics' = pic_disable_all(pics)
    /\ UNCHANGED << idt, outside_arch >>

call_set_handler ==
    \E vector \in Vectors, handler \in Wrappers :
       /\ ArchCall("set_handler", << vector, handler >>, << >>)
       /\ idt' = Idt_set_handler(idt, vector, handler)
       /\ UNCHANGED << pics, outside_arch >>

\* the CPU acknowledges a line: its controller takes it into service, and for
\* a line of the secondary controller the primary takes the cascade line
line_in_service ==
    \E irq \in ServicedIrqs :
       /\ pics' = IF irq < 8 THEN [pics EXCEPT ![1].isr = @ \cup {irq}]
                  ELSE [pics EXCEPT ![2].isr = @ \cup {irq - 8},
                                    ![1].isr = @ \cup {2}]
       /\ UNCHANGED << idt, arch_vars, outside_arch >>

NextArch ==
    \/ call_pic_init
    \/ call_enable_irq
    \/ call_disable_irq
    \/ call_send_eoi
    \/ call_disable_all
    \/ call_set_handler
    \/ line_in_service

\* the pic and idt modules called in any order on a machine the firmware
\* has set up
SpecArch == InitKernel /\ [][NextArch]_vars

\* -------------------------------------------------- exception dispatch

\* the statements of the handlers in interrupts.rs, in program order: a line
\* printed on the serial port or on the screen, the read of CR2, the final
\* hlt loop, or the return at the end of the function
divide_by_zero_handler ==
    << << "serial_println", "EXCEPTION: Divide by Zero" >>,
       << "println", "EXCEPTION: Divide by Zero" >>,
       << "loop_hlt" >> >>

\* mutant: the debug handler parks the CPU like the fatal ones
debug_handler_halts ==
    << << "serial_println", "EXCEPTION: Debug" >>,
       << "println", "EXCEPTION: Debug" >>,
       << "loop_hlt" >> >>

debug_handler ==
    << << "serial_println", "EXCEPTION: Debug" >>,
       << "println", "EXCEPTION: Debug" >>,
       << "ret" >> >>

breakpoint_handler ==
    << << "serial_println", "EXCEPTION: Breakpoint" >>,
       << "println", "EXCEPTION: Breakpoint" >>,
       << "ret" >> >>

page_fault_handler ==
    << << "serial_println", "EXCEPTION: Page Fault" >>,
       << "println", "EXCEPTION: Page Fault" >>,
       << "mov_cr2" >>,
       << "serial_println", "  Faulting address" >>,
       << "println", "  Faulting address" >>,
       << "loop_hlt" >> >>

general_protection_fault_handler ==
    << << "serial_println", "EXCEPTION: General Protection Fault" >>,
       << "println", "EXCEPTION: General Protection Fault" >>,
       << "loop_hlt" >> >>

double_fault_handler ==
    << << "serial_println", "EXCEPTION: Double Fault" >>,
       << "println", "EXCEPTION: Double Fault" >>,
       << "loop_hlt" >> >>

\* exception_wrapper!(name, handler): the function each trampoline calls
exception_wrapper(name) ==
    CASE name = "divide_by_zero_wrapper" -> divide_by_zero_handler
      [] name = "debug_wrapper" -> debug_handler
      [] name = "breakpoint_wrapper" -> breakpoint_handler
      [] name = "page_fault_wrapper" -> page_fault_handler
      [] name = "general_protection_fault_wrapper" -> general_protection_fault_handler
      [] name = "double_fault_wrapper" -> double_fault_handler

\* the table idt::init has built when it returns
RECURSIVE Idt_init_loop(_, _)
Idt_init_loop(table, k) ==
    IF k > Len(IdtHandlers) THEN table
    ELSE Idt_init_loop(Idt_set_handler(table, IdtHandlers[k][1], IdtHandlers[k][2]), k + 1)

\* the exceptions the kernel installs a handler for
ExceptionVectors == { 0, 1, 3, 8, 13, 14 }

\* the exceptions for which the CPU pushes an error code
ErrorCodeVectors == { 8, 13, 14 }

\* the machine after the table and controller setup of _start: the steps up
\* to "sti" have run, no key has been pressed
InitAfterSetup ==
    /\ pc \in { k \in 1 .. Len(BootSteps) : BootSteps[k] = "sti" }
    /\ interrupt_flag = FALSE
    /\ gdt_loaded = TRUE
    /\ idt = Idt_init_loop(Idt_new, 1)
    /\ idtr_loaded = TRUE
    /\ pics = pic_enable_irq(pic_init(<< Pic8259(8, 255), Pic8259(112, 255) >>), 1)
    /\ ps2 = [data |-> 0, full |-> FALSE]
    /\ keys_pressed = 0
    /\ kb_locked = Spinlock_new.locked
    /\ kb_buffer = RingBuffer_new(BUFFER_SIZE)
    /\ irq_pc = "idle"
    /\ scan_code = 0
    /\ reader_pc = "none"
    /\ read_ret = None
    /\ misdelivered = FALSE
    /\ eois = 0
    /\ stored = None

InitDispatch ==
    /\ InitAllocator
    /\ InitSpinlock
    /\ InitAfterSetup
    /\ InitUnits

\* what exception dispatch leaves alone
outside_dispatch == << allocator_vars, lock_vars, caller_vars, arch_vars,
                       ring_vars, pc,
                       table_vars, pics, keyboard_vars, handler_vars >>

\* the function the trampoline of the vector being handled calls
HandlerBody == exception_wrapper(Idt_entry(idt, exc_vector).handler)

\* the handler is at a statement of this kind
AtStatement(kinds) ==
    /\ exc_pc.at = "handler"
    /\ exc_pc.stmt <= Len(HandlerBody)
    /\ HandlerBody[exc_pc.stmt][1] \in kinds

\* kernel code runs with interrupts on or off
set_interrupt_flag ==
    /\ exc_pc.at = "idle"
    /\ interrupt_flag' = ~interrupt_flag
    /\ UNCHANGED << exception_vars, allocator_vars, lock_vars, caller_vars,
                    arch_vars, ring_vars,
                    pc, table_vars, pics, keyboard_vars, handler_vars >>

\* the running code raises an exception: the CPU pushes the return frame (and
\* for some vectors an error code) and enters the gate of the vector, an
\* interrupt gate, which clears the interrupt flag
exception_raise ==
    /\ exc_pc.at = "idle"
    /\ exceptions < MaxExceptions
    /\ idtr_loaded
    /\ \E vector \in ExceptionVectors :
          /\ Present(Idt_entry(idt, vector))
          /\ exc_vector' = vector
          /\ exc_stack' =
                << [kind |-> "frame", value |-> interrupt_flag] >>
                \o (IF vector \in ErrorCodeVectors
                    THEN << [kind |-> "error_code", value |-> 0] >> ELSE << >>)
    /\ interrupt_flag' = FALSE
    /\ exc_pc' = [at |-> "push", stmt |-> 0]
    /\ exceptions' = exceptions + 1
    /\ UNCHANGED << regs, console, outside_dispatch >>

\* the trampoline: nine pushes of the caller-saved registers, then call
wrapper_push_call ==
    /\ exc_pc.at = "push"
    /\ exc_stack' = push_each(exc_stack, regs, SavedRegisters)
    /\ exc_pc' = [at |-> "handler", stmt |-> 1]
    /\ UNCHANGED << exc_vector, regs, console, exceptions, interrupt_flag,
                    outside_dispatch >>

\* serial_println! or println!: a line on that device; the call uses the
\* caller-saved registers
handler_report ==
    /\ AtStatement({ "serial_println", "println" })
    /\ console' = Append(console, HandlerBody[exc_pc.stmt])
    /\ regs' = ClobberedRegs
    /\ exc_pc' = [exc_pc EXCEPT !.stmt = @ + 1]
    /\ UNCHANGED << exc_vector, exc_stack, exceptions, interrupt_flag,
                    outside_dispatch >>

\* mov {}, cr2
handler_mov_cr2 ==
    /\ AtStatement({ "mov_cr2" })
    /\ regs' = ClobberedRegs
    /\ exc_pc' = [exc_pc EXCEPT !.stmt = @ + 1]
    /\ UNCHANGED << exc_vector, exc_stack, console, exceptions, interrupt_flag,
                    outside_dispatch >>

\* loop { hlt }: with the interrupt flag clear nothing wakes the CPU, and the
\* loop has no exit
handler_loop_hlt ==
    /\ AtStatement({ "loop_hlt" })
    /\ UNCHANGED vars

\* the handler returns to the trampoline
handler_ret ==
    /\ AtStatement({ "ret" })
    /\ exc_pc' = [at |-> "pop", stmt |-> 0]
    /\ UNCHANGED << exc_vector, regs, exc_stack, console, exceptions,
                    interrupt_flag, outside_dispatch >>

\* the trampoline: nine pops into the caller-saved registers
wrapper_pop ==
    /\ exc_pc.at = "pop"
    /\ LET out == pop_each(exc_stack, regs, RestoredRegisters) IN
          /\ regs' = out.regs
          /\ exc_stack' = out.stack
    /\ exc_pc' = [at |-> "iretq", stmt |-> 0]
    /\ UNCHANGED << exc_vector, console, exceptions, interrupt_flag,
                    outside_dispatch >>

\* iretq takes the return frame from the top of the stack: the interrupted
\* code goes on with its flags, unless something else is on top
wrapper_iretq ==
    /\ exc_pc.at = "iretq"
    /\ LET top == exc_stack[Len(exc_stack)] IN
          IF top.kind # "frame"
          THEN /\ exc_pc' = [at |-> "lost", stmt |-> 0]
               /\ UNCHANGED << exc_vector, exc_stack, interrupt_flag >>
          ELSE /\ exc_pc' = [at |-> "idle", stmt |-> 0]
               /\ exc_vector' = -1
               /\ exc_stack' = SubSeq(exc_stack, 1, Len(exc_stack) - 1)
               /\ interrupt_flag' = top.value
    /\ UNCHANGED << regs, console, exceptions, outside_dispatch >>

\* the instruction stream of the trampoline and the handler
Handling ==
    \/ wrapper_push_call
    \/ handler_report
    \/ handler_mov_cr2
    \/ handler_loop_hlt
    \/ handler_ret
    \/ wrapper_pop
    \/ wrapper_iretq

NextDispatch ==
    \/ set_interrupt_flag
    \/ exception_raise
    \/ wrapper_push_call
    \/ handler_report
    \/ handler_mov_cr2
    \/ handler_loop_hlt
    \/ handler_ret
    \/ wrapper_pop
    \/ wrapper_iretq

\* the CPU takes exceptions from kernel code; once in a trampoline it goes on
\* executing it (the interrupt flag is clear, nothing preempts it)
SpecDispatch == InitDispatch /\ [][NextDispatch]_vars /\ WF_vars(Handling)

\* ---------------------------------------------- callers of a RingBuffer

\* N of the RingBuffer<T, N> under test
RingSizes == { 1, 2, 3, 4 }

\* the items pushed
Items == { 7, 9 }

InitRingBuffer ==
    /\ InitAllocator
    /\ InitSpinlock
    /\ InitMachine(255, 255)
    /\ InitArch
    /\ InitException
    /\ \E N \in RingSizes : InitRing(N)

\* what a call on the RingBuffer leaves alone
outside_ring == << allocator_vars, lock_vars, caller_vars, kernel_vars,
                  arch_vars, exception_vars >>

ring_push ==
    /\ Len(pushed) < MaxPushes
    /\ \E item \in Items :
          LET out == RingBuffer_push(ring, item) IN
          /\ ring' = out.self
          /\ pushed' = IF out.ret THEN Append(pushed, item) ELSE pushed
          /\ ring_last' = [op |-> "push", arg |-> item, ret |-> out.ret]
    /\ UNCHANGED << popped, cleared, outside_ring >>

ring_pop ==
    /\ LET out == RingBuffer_pop(ring) IN
          /\ ring' = out.self
          /\ popped' = popped \o out.ret
          /\ ring_last' = [op |-> "pop", arg |-> None, ret |-> out.ret]
    /\ UNCHANGED << pushed, cleared, outside_ring >>

ring_clear ==
    /\ ring' = RingBuffer_clear(ring)
    /\ pushed' = << >>
    /\ popped' = << >>
    /\ ring_last' = [op |-> "clear", arg |-> None, ret |-> None]
    /\ cleared' = TRUE
    /\ UNCHANGED outside_ring

NextRing == ring_push \/ ring_pop \/ ring_clear

SpecRing == InitRingBuffer /\ [][NextRing]_vars

\* ---------------------------------------------- vocabulary of the properties

\* the bit of frame index i is set (an index past the bitmap has no bit)
BitAt(bm, i) == i \div 8 < BITMAP_SIZE /\ BitTest(bm[i \div 8], i % 8)

\* the set bits at indices in [0, n)
SetBits(bm, n) == { i \in 0 .. n - 1 : BitAt(bm, i) }

RegionIds == 0 .. region_count - 1

\* the number of frames of the regions recorded before region r
RECURSIVE PrefixFrames(_)
PrefixFrames(r) == IF r = 0 THEN 0 ELSE PrefixFrames(r - 1) + regions[r - 1].frame_count

\* region r owns flat index i
Owns(r, i) == PrefixFrames(r) <= i /\ i < PrefixFrames(r) + regions[r].frame_count

\* the physical address of flat index i < total_frames
AddrOf(i) ==
    LET r == CHOOSE q \in RegionIds : Owns(q, i)
    IN  regions[r].base + (i - PrefixFrames(r)) * FRAME_SIZE

\* phys_addr lies in region r's half-open interval
InRegion(r, phys_addr) ==
    /\ regions[r].base <= phys_addr
    /\ phys_addr < regions[r].base + regions[r].frame_count * FRAME_SIZE

\* the calls that returned an address
AllocOps == { "allocate_frame", "allocate_contiguous_frames" }

\* the number of frames the last call asked for
AskedOf(l) == IF l.op = "allocate_frame" THEN 1 ELSE l.arg[1]

\* C1: used_frames equals the number of set bits of the bitmap at indices in
\* [0, total_frames), initially and after every call.
C1_UsedIsPopcount == used_frames = Cardinality(SetBits(bitmap, total_frames))

\* C1 witness: a deallocation that freed a frame left other frames allocated,
\* single and contiguous allocations having happened before
C1_Witness ==
    /\ last.op = "deallocate_frame"
    /\ used_frames >= 3
    /\ used_frames < total_frames
    /\ ~BitAt(bitmap, 0)

\* every bit the bitmap has
AllBits(bm) == SetBits(bm, 8 * BITMAP_SIZE)

\* C2: the triple stats() returns is (total_frames, used_frames, free) with
\* used + free = total, and used_frames never exceeds total_frames, so the
\* subtraction total - used never underflows.
C2_StatsConsistent ==
    /\ used_frames <= total_frames
    /\ last.op = "stats" =>
          /\ ~panicked
          /\ Len(last.ret) = 3
          /\ last.ret[1] = total_frames
          /\ last.ret[2] = used_frames
          /\ last.ret[2] + last.ret[3] = last.ret[1]

\* C2 witness: stats() was called with some but not all frames in use
C2_Witness ==
    /\ last.op = "stats"
    /\ used_frames > 0
    /\ used_frames < total_frames

\* C3: an allocation never returns, or covers, a frame that is still held by
\* a caller, and every address returned is 4096-byte aligned.
C3_NoDoubleAllocation ==
    [][ (last'.op \in AllocOps /\ last'.ret # None) =>
            /\ FramesOf(last'.ret[1], AskedOf(last')) \cap held = {}
            /\ last'.ret[1] % FRAME_SIZE = 0 ]_vars

\* C3 witness: single-frame allocation ran into exhaustion: the last frame
\* was handed out and every frame is held by a caller
C3_Witness ==
    /\ last.op = "allocate_frame"
    /\ last.ret # None
    /\ total_frames > 1
    /\ used_frames = total_frames
    /\ Cardinality(held) = total_frames

\* C4: no frame is lost: the addresses of the set bits are exactly the
\* addresses handed out and not yet given back, and a call that marks a
\* frame returns an address.
C4_NoFrameLost ==
    /\ { AddrOf(i) : i \in SetBits(bitmap, total_frames) } = held
    /\ (last.op \in AllocOps /\ last.changed) => (last.ret # None /\ ~panicked)

\* C4 witness: a contiguous allocation of several frames succeeded while
\* other frames were held
C4_Witness ==
    /\ last.op = "allocate_contiguous_frames"
    /\ last.ret # None
    /\ last.arg[1] >= 2
    /\ Cardinality(held) > last.arg[1]

\* C5: a successful allocate_contiguous_frames(n) returns n frames that lie
\* inside one recorded region, and the bits it sets are exactly the bits of
\* those n frames.
C5_RunInsideOneRegion ==
    [][ (last'.op = "allocate_contiguous_frames" /\ last'.ret # None) =>
            LET a == last'.ret[1]
                n == last'.arg[1]
            IN  \E r \in RegionIds :
                   /\ InRegion(r, a)
                   /\ InRegion(r, a + (n - 1) * FRAME_SIZE)
                   /\ LET first == PrefixFrames(r) + (a - regions[r].base) \div FRAME_SIZE
                          run == first .. first + n - 1
                      IN  /\ run \cap AllBits(bitmap) = {}
                          /\ AllBits(bitmap') = AllBits(bitmap) \cup run ]_vars

\* C5 witness: with two physically adjacent regions, a run of 2 was taken at
\* the start of the second region although the last frame of the first
\* region, next to it, is free
C5_Witness ==
    /\ last.op = "allocate_contiguous_frames"
    /\ last.arg = Some(2)
    /\ region_count = 2
    /\ regions[1].base = regions[0].base + regions[0].frame_count * FRAME_SIZE
    /\ last.ret = Some(regions[1].base)
    /\ ~BitAt(bitmap, regions[0].frame_count - 1)

\* frame k of region r is free: its bit is not set
FreeFrame(r, k) == ~BitAt(bitmap, PrefixFrames(r) + k)

\* some single region contains a run of n consecutive free frames
HasFreeRun(n) ==
    \E r \in RegionIds :
       \E start \in 0 .. regions[r].frame_count - n :
          \A i \in 0 .. n - 1 : FreeFrame(r, start + i)

\* C6: for n >= 1, allocate_contiguous_frames(n) returns an address if and
\* only if some single region contains a run of n consecutive free frames.
C6_SucceedsIffRunExists ==
    [][ (last'.op = "allocate_contiguous_frames" /\ last'.arg[1] >= 1) =>
            ((last'.ret # None) <=> HasFreeRun(last'.arg[1])) ]_vars

\* the lowest clear bit in [0, total_frames)
LowestClear ==
    CHOOSE i \in 0 .. total_frames - 1 :
        /\ ~BitAt(bitmap, i)
        /\ \A j \in 0 .. i - 1 : BitAt(bitmap, j)

\* C7: allocate_frame is first-fit: it sets the lowest clear bit i of
\* [0, total_frames), returns base + (i - prefix) * 4096 of the region that
\* owns i, and changes no other bit.
C7_FirstFit ==
    [][ (/\ last'.op = "allocate_frame"
         /\ \E i \in 0 .. total_frames - 1 : ~BitAt(bitmap, i)) =>
            /\ ~panicked'
            /\ last'.ret = Some(AddrOf(LowestClear))
            /\ AllBits(bitmap') = AllBits(bitmap) \cup {LowestClear}
            /\ used_frames' = used_frames + 1 ]_vars

\* C7 witness: the frame returned is the first of the second region (the
\* first region being full), with frames after it already allocated
C7_Witness ==
    /\ last.op = "allocate_frame"
    /\ region_count >= 2
    /\ last.ret = Some(regions[1].base)
    /\ BitAt(bitmap, regions[0].frame_count + 1)

\* C8: allocate_frame returning a, then deallocate_frame(a), then
\* allocate_frame again returns a and leaves the allocator as it was after
\* the first allocation.
C8_RoundTrip ==
    (last.op = "allocate_frame" /\ last.ret # None) =>
        \A overflow_checks \in BOOLEAN :
           LET freed == FrameAllocator_deallocate_frame(Self, last.ret[1], overflow_checks)
               again == FrameAllocator_allocate_frame(freed.self)
           IN  /\ ~freed.panic
               /\ freed.self # Self
               /\ ~again.panic
               /\ again.ret = last.ret
               /\ again.self = Self

\* C8 witness: the frame allocated has allocated frames below and above it
C8_Witness ==
    /\ last.op = "allocate_frame"
    /\ last.ret # None
    /\ \E i \in 1 .. total_frames - 2 :
          /\ last.ret = Some(AddrOf(i))
          /\ BitAt(bitmap, i - 1)
          /\ BitAt(bitmap, i + 1)

\* C9: allocate_frame returns None exactly when every bit of
\* [0, total_frames) is set, that is when used_frames = total_frames, and a
\* failing allocate_frame or allocate_contiguous_frames leaves the allocator
\* unchanged and does not abort.
C9_ExhaustionIsNone ==
    [][ /\ last'.op = "allocate_frame" =>
              /\ ~panicked'
              /\ (last'.ret = None) <=> (used_frames = total_frames)
              /\ (last'.ret = None) <=> (\A i \in 0 .. total_frames - 1 : BitAt(bitmap, i))
        /\ (last'.op \in AllocOps /\ last'.ret = None) =>
              /\ ~panicked'
              /\ UNCHANGED << bitmap, used_frames, total_frames, regions, region_count >>
      ]_vars

\* phys_addr lies outside every region's half-open interval
OutsideAll(phys_addr) == \A r \in RegionIds : ~InRegion(r, phys_addr)

\* the bit of the frame of phys_addr (in the first region containing it)
\* is clear
AlreadyClear(phys_addr) ==
    \E r \in RegionIds :
       /\ InRegion(r, phys_addr)
       /\ \A q \in 0 .. r - 1 : ~InRegion(q, phys_addr)
       /\ ~BitAt(bitmap, PrefixFrames(r) + (phys_addr - regions[r].base) \div FRAME_SIZE)

\* C10: deallocate_frame with an address outside every region, or with an
\* address whose frame bit is already clear, changes neither the bitmap nor
\* used_frames, and returns.
C10_InvalidFreeIsNoop ==
    [][ (/\ last'.op = "deallocate_frame"
         /\ OutsideAll(last'.arg[1]) \/ AlreadyClear(last'.arg[1])) =>
            /\ bitmap' = bitmap
            /\ used_frames' = used_frames
            /\ ~panicked' ]_vars

\* C10 witness: a frame inside a region was freed a second time while other
\* frames were allocated, and the call changed nothing
C10_Witness ==
    /\ last.op = "deallocate_frame"
    /\ ~last.changed
    /\ ~panicked
    /\ ~OutsideAll(last.arg[1])
    /\ AlreadyClear(last.arg[1])
    /\ used_frames > 0

\* ------------------------------------------------------------------- C11

\* the two-region memory map of the example, at the model's scale: region A
\* at 0x100000 (5 frames), a reserved hole, region B at 0x800000 (3 frames)
TwoRegionMap ==
    << Entry(1048576, 5 * FRAME_SIZE + 100, LIMINE_MEMMAP_USABLE),
       Entry(2097152, FRAME_SIZE, LIMINE_MEMMAP_RESERVED),
       Entry(8388608, 3 * FRAME_SIZE, LIMINE_MEMMAP_USABLE) >>

\* the example: init on the two-region map counts the frames of both
\* regions, the first allocations walk region A upwards and the allocation
\* after A's last frame returns B's base
TwoRegionExample ==
    (initialized /\ memory_map = TwoRegionMap) =>
        /\ total_frames = 8
        /\ (last.op = "allocate_frame" /\ fresh_allocs \in 1 .. 5)
              => last.ret = Some(1048576 + (fresh_allocs - 1) * FRAME_SIZE)
        /\ (last.op = "allocate_frame" /\ fresh_allocs = 6)
              => last.ret = Some(8388608)

\* in general the k-th allocate_frame on a fresh allocator (k <= total_frames)
\* returns the address of flat index k - 1
KthAllocation ==
    (last.op = "allocate_frame" /\ fresh_allocs >= 1) =>
        /\ ~panicked
        /\ last.ret = Some(AddrOf(fresh_allocs - 1))

\* C11: with the two-region map init yields the frames of both regions, the
\* first allocations return addresses in A in increasing order and the next
\* one returns B's base; in general, on a fresh allocator the k-th
\* allocate_frame returns the address of flat index k - 1, mapped through the
\* regions' prefix sums.
C11_SequentialAddresses == TwoRegionExample /\ KthAllocation

\* the allocation after region A's last frame has returned region B's base
C11_Witness ==
    /\ memory_map = TwoRegionMap
    /\ last.op = "allocate_frame"
    /\ fresh_allocs = 6
    /\ last.ret = Some(8388608)

\* ------------------------------------------------------------------- C12

\* every bit in [0, total_frames) is clear and nothing is counted as used
AllFree(bm, total, used) == SetBits(bm, total) = {} /\ used = 0

\* C12 as stated: when init returns, every bitmap bit in [0, total_frames) is
\* clear and used_frames is 0, whatever the allocator state was when init was
\* called.
C12_InitResetsBitmap ==
    last.op = "init" => AllFree(bitmap, total_frames, used_frames)

\* C12, amended: init called on the freshly constructed allocator (the one
\* call the boot path makes) returns with every bit in [0, total_frames)
\* clear and used_frames = 0; init writes neither the bitmap nor used_frames,
\* so a later call leaves both as they were.
C12_InitOnNewAllocator ==
    [][ last'.op = "init" =>
          /\ bitmap' = bitmap
          /\ used_frames' = used_frames
          /\ ~initialized => AllFree(bitmap', total_frames', used_frames') ]_vars

\* the first init has returned on a map with usable frames, none of them used
C12_Witness ==
    /\ last.op = "init"
    /\ fresh_allocs = 0
    /\ total_frames > 0
    /\ AllFree(bitmap, total_frames, used_frames)

\* ------------------------------------------------------------------- C13

IsUsable(entry) == entry.entry_type = LIMINE_MEMMAP_USABLE

\* the entries of a memory map that are tagged usable, in arrival order
UsableEntries(map) == SelectSeq(map, IsUsable)

\* the first n elements of a sequence (all of them when it is shorter)
FirstN(seq, n) == SubSeq(seq, 1, IF Len(seq) < n THEN Len(seq) ELSE n)

RECURSIVE SumOfFrames(_)
SumOfFrames(entries) ==
    IF entries = << >> THEN 0
    ELSE Head(entries).length \div FRAME_SIZE + SumOfFrames(Tail(entries))

\* the region table holds exactly these entries, in this order, each as
\* (base, floor(length / FRAME_SIZE)), and total_frames is their sum
RecordedAs(entries) ==
    /\ region_count = Len(entries)
    /\ \A k \in 1 .. Len(entries) :
          regions[k - 1] = [base |-> entries[k].base,
                            frame_count |-> entries[k].length \div FRAME_SIZE]
    /\ \A r \in region_count .. MAX_REGIONS - 1 : regions[r] = MemoryRegion_empty
    /\ total_frames = SumOfFrames(entries)

\* C13 as stated: init records exactly the entries tagged usable, in arrival
\* order, each as (base, floor(length / 4096)), and sets total_frames to the
\* sum of the recorded regions' frame counts; afterwards no allocate_frame,
\* allocate_contiguous_frames or deallocate_frame call changes total_frames,
\* region_count or any region (so it holds in every state after init).
C13_RecordsUsableEntries ==
    initialized => RecordedAs(UsableEntries(memory_map))

\* C13, amended: init records the entries tagged usable in arrival order, up
\* to the first MAX_REGIONS of them, each as (base, floor(length / 4096)),
\* and sets total_frames to the sum of the recorded regions' frame counts;
\* afterwards no call changes total_frames, region_count or any region.
C13_RecordsFirstUsableEntries ==
    initialized => RecordedAs(FirstN(UsableEntries(memory_map), MAX_REGIONS))

\* frames were allocated and given back after an init that skipped a
\* reserved entry and rounded a length down, and the regions are as recorded
C13_Witness ==
    /\ initialized
    /\ memory_map = TwoRegionMap
    /\ last.op = "deallocate_frame"
    /\ last.changed
    /\ held # {}
    /\ RecordedAs(UsableEntries(memory_map))

\* ------------------------------------------------------------------- C14

\* context c holds a SpinlockGuard: lock() has returned it and it is not
\* dropped yet
HasGuard(c) == ctx[c] \in { "guard", "modify", "drop" }

Holders == { c \in Contexts : HasGuard(c) }

\* C14: under concurrent lock() attempts from two execution contexts at most
\* one SpinlockGuard exists in every reachable state, and the locked flag is
\* true whenever a guard exists.
C14_MutualExclusion ==
    /\ Cardinality(Holders) <= 1
    /\ Holders # {} => locked

\* one context holds the guard while the other one has just failed its
\* compare exchange on the held lock
C14_Witness ==
    /\ HasGuard(1)
    /\ ctx[2] = "spin"
    /\ locked
    /\ cycles[2] >= 1

\* ------------------------------------------------------------------- C15

\* a lock() on the flag as it is now can return
LockCanSucceed == \E out \in compare_exchange_weak(locked, FALSE, TRUE) : ~out.is_err

\* C15: whenever no guard exists the locked flag is false and a following
\* lock() can succeed, after any number of lock()/drop cycles; the step that
\* drops a guard takes the flag from true to false; and the flag never stays
\* true for ever (no permanent lock-out).
C15_ReleaseAndReacquire ==
    /\ [](Holders = {} => (~locked /\ LockCanSucceed))
    /\ [][ \A c \in Contexts :
              (HasGuard(c) /\ ~HasGuard(c)') => (locked /\ ~locked') ]_vars
    /\ (locked ~> ~locked)

\* a context holds the lock again after both contexts have completed a cycle
C15_Witness ==
    /\ cycles[1] >= 1
    /\ cycles[2] >= 1
    /\ HasGuard(1)
    /\ locked

\* ------------------------------------------------------------------- C16

\* the keyboard interrupt handler is inside KEYBOARD_BUFFER.lock()
HandlerInLock == irq_pc \in { "lock", "spin" }

\* the interrupted normal path holds the guard of KEYBOARD_BUFFER
NormalPathHoldsLock == reader_pc \in { "pop", "drop" }

\* C16: once interrupts are enabled, the keyboard IRQ handler never attempts
\* to acquire a spinlock that the interrupted normal-path code (read_scancode
\* holding KEYBOARD_BUFFER) currently holds: no reachable state has the
\* handler in lock() on a lock whose holder is the preempted path.
C16_NoInterruptDeadlock == ~(HandlerInLock /\ NormalPathHoldsLock /\ kb_locked)

\* the handler took the free lock while the normal path was outside
\* read_scancode, and stored the scan code
C16_Witness ==
    /\ irq_pc = "drop"
    /\ reader_pc = "none"
    /\ At("halt_loop")
    /\ kb_buffer.write_pos # kb_buffer.read_pos

\* ------------------------------------------------------------------- C17

\* both controllers deliver on the remapped vectors
Remapped == pics[1].offset = 32 /\ pics[2].offset = 40

\* _start has executed sti
InterruptsEnabled == Done("sti") \/ interrupt_flag

\* C17: _start loads the segment table, then the interrupt table, then remaps
\* the interrupt controller, then initializes the frame allocator, and only
\* then enables interrupts.
C17_BootOrder ==
    /\ idtr_loaded => gdt_loaded
    /\ Remapped => idtr_loaded
    /\ initialized => Remapped
    /\ InterruptsEnabled => initialized

\* the frame allocator is being set up with interrupts already enabled
C17_Witness ==
    /\ At("frame_allocator_init")
    /\ interrupt_flag
    /\ ~initialized

\* ------------------------------------------------------------------- C18

\* every set_handler call of idt::init has been made: the seven vectors hold
\* a present descriptor of their trampoline, and no other vector holds one
FullyPopulated ==
    /\ Installed(idt) = { IdtHandlers[k][1] : k \in 1 .. Len(IdtHandlers) }
    /\ Cardinality(Installed(idt)) = 7
    /\ \A k \in 1 .. Len(IdtHandlers) :
          /\ Idt_entry(idt, IdtHandlers[k][1]).handler = IdtHandlers[k][2]
          /\ Present(Idt_entry(idt, IdtHandlers[k][1]))

\* C18: interrupts remain disabled until the GDT is loaded and the IDT is
\* fully populated (all seven handlers installed) and loaded, so no interrupt
\* is dispatched through a descriptor that is not installed yet.
C18_TablesBeforeInterrupts ==
    /\ InterruptsEnabled => (gdt_loaded /\ FullyPopulated /\ idtr_loaded)
    /\ ~misdelivered

\* a keyboard interrupt has been dispatched through vector 33 during boot
C18_Witness ==
    /\ irq_pc = "inb"
    /\ ~At("halt_loop")
    /\ gdt_loaded /\ FullyPopulated /\ idtr_loaded

\* ------------------------------------------------------------------- C19

\* C19: after pic::init has sent ICW1 to both controllers, then the vector
\* offsets, then the cascade wiring, then the mode, hardware IRQ 0 maps to
\* vector 32, the secondary controller's base is 40 = primary base + 8, and
\* IRQs 0..15 map contiguously to vectors 32..47.
C19_VectorsRemapped ==
    Done("pic_init") =>
        /\ \A i \in 1 .. 2 : pics[i].phase = "ready" /\ pics[i].mode = ICW4_8086
        /\ pics[1].cascade = 4 /\ pics[2].cascade = 2
        /\ VectorOf(pics, 0) = 32
        /\ pics[2].offset = 40 /\ pics[2].offset = pics[1].offset + 8
        /\ \A irq \in 0 .. 15 : VectorOf(pics, irq) = 32 + irq

\* pic::init has just run on controllers that delivered elsewhere before
C19_Witness ==
    /\ At("keyboard_init")
    /\ Done("pic_init")
    /\ VectorOf(pics, 1) = 33
    /\ VectorOf(pics, 15) = 47

\* ------------------------------------------------------------------- C20

\* C20: pic::init preserves the interrupt masks: the mask of each controller
\* after init equals the value read from that controller's data port before
\* the initialization sequence started.
C20_MasksPreserved ==
    [][ (At("pic_init") /\ pc' = pc + 1) =>
           /\ inb(pics', PIC1_DATA) = inb(pics, PIC1_DATA)
           /\ inb(pics', PIC2_DATA) = inb(pics, PIC2_DATA)
           /\ pics'[1].imr = pics[1].imr
           /\ pics'[2].imr = pics[2].imr ]_vars

\* pic::init has run on masks with some lines masked and some not
C20_Witness ==
    /\ At("keyboard_init")
    /\ Done("pic_init")
    /\ pics[1].imr = 184
    /\ pics[2].imr = 0

\* ------------------------------------------------------------------- C21

\* the call that this step makes, if it is a call of op on line irq
Calls(op, irq) ==
    /\ arch_calls' = arch_calls + 1
    /\ arch_last'.op = op
    /\ arch_last'.arg = irq

\* the controller that owns a line (1 primary, 2 secondary)
Owner(irq) == IF irq < 8 THEN 1 ELSE 2

\* mask new is mask old with bit b set to value, every other bit as it was
OnlyBit(old, new, b, value) ==
    \A k \in 0 .. 7 : BitTest(new, k) = IF k = b THEN value ELSE BitTest(old, k)

\* the masks after the step are the masks before it with the bit of line irq
\* at value on the owning controller, and nothing else changed
MaskBitBecomes(irq, value) ==
    /\ OnlyBit(pics[Owner(irq)].imr, pics'[Owner(irq)].imr, irq % 8, value)
    /\ pics'[3 - Owner(irq)].imr = pics[3 - Owner(irq)].imr

\* this step undoes the previous call on the same line: the masks are again
\* what they were before that call, when the bit then had the value this
\* step gives it
Restores(op, undone, irq, value) ==
    (/\ Calls(op, irq)
     /\ arch_last.op = undone /\ arch_last.arg = irq
     /\ BitTest(arch_last.before[Owner(irq)], irq % 8) = value)
        => Masks(pics') = arch_last.before

\* C21: for every irq in 0..15, enable_irq(irq) clears and disable_irq(irq)
\* sets exactly mask bit irq mod 8 of the controller that owns the line
\* (primary for 0..7, secondary for 8..15); the other bits of that mask and
\* the mask of the other controller stay as they were, and enable after
\* disable of the same line, or disable after enable, brings the masks back.
C21_MaskBit ==
    [][\A irq \in Irqs :
          /\ Calls("enable_irq", irq) => MaskBitBecomes(irq, FALSE)
          /\ Calls("disable_irq", irq) => MaskBitBecomes(irq, TRUE)
          /\ Restores("enable_irq", "disable_irq", irq, FALSE)
          /\ Restores("disable_irq", "enable_irq", irq, TRUE)]_vars

\* disable_irq(12) on an open secondary mask, then enable_irq(12): bit 4 was
\* set and is clear again, the primary mask is as the firmware left it
C21_Witness ==
    /\ arch_calls = 2
    /\ arch_last.op = "enable_irq" /\ arch_last.arg = 12
    /\ arch_last.before = << 253, 16 >>
    /\ Masks(pics) = << 253, 0 >>

\* ------------------------------------------------------------------- C22

\* the writes among ws that go to a port of the secondary controller
ToSecondary(ws) ==
    { k \in 1 .. Len(ws) : ws[k][1] \in { PIC2_COMMAND, PIC2_DATA } }

\* C22: send_eoi(irq) writes the end-of-interrupt command to the secondary
\* controller first if and only if irq >= 8, and then always to the primary
\* controller; for irq < 8 the secondary controller receives nothing (and
\* keeps its state).
C22_EoiOrder ==
    [][\A irq \in Irqs :
          Calls("send_eoi", irq) =>
             LET ws == arch_last'.writes IN
             /\ ws # << >>
             /\ ws[Len(ws)] = << PIC1_COMMAND, PIC_EOI >>
             /\ \A k \in 1 .. Len(ws) - 1 : ws[k][1] # PIC1_COMMAND
             /\ (irq >= 8) <=> (ws[1] = << PIC2_COMMAND, PIC_EOI >>)
             /\ (irq >= 8) => ToSecondary(ws) = { 1 }
             /\ (irq < 8) => (ToSecondary(ws) = {} /\ pics'[2] = pics[2])
             /\ pics'[1].isr = EndOfInterrupt(pics[1].isr)
             /\ (irq >= 8) => pics'[2].isr = EndOfInterrupt(pics[2].isr)]_vars

\* the keyboard and the mouse line were in service; send_eoi(12) ended the
\* mouse line on the secondary controller and the highest-priority line of
\* the primary, whose cascade line is what remains in service
C22_Witness ==
    /\ arch_last.op = "send_eoi" /\ arch_last.arg = 12
    /\ Len(arch_last.writes) = 2
    /\ pics[2].isr = {}
    /\ pics[1].isr = { 2 }

\* ------------------------------------------------------------------- C23

\* the keyboard handler runs and has not reached its send_eoi call
BeforeEoi == irq_pc \in { "inb", "lock", "spin", "push", "drop", "send_eoi" }

\* C23: on every execution of the keyboard IRQ handler (vector 33, IRQ 1),
\* send_eoi(1) is issued exactly once before the trampoline executes iretq,
\* whether or not the scan code could be stored: none before the handler
\* reaches the call, one when the trampoline is at iretq and when it returns.
C23_EoiBeforeReturn ==
    /\ [](BeforeEoi => eois = 0)
    /\ [](irq_pc = "iretq" => eois = 1)
    /\ [][irq_pc' = "idle" /\ irq_pc # "idle" =>
              /\ irq_pc = "iretq" /\ eois = 1
              /\ 1 \notin pics[1].isr]_vars

\* the trampoline is at iretq after a handler run whose push found
\* KEYBOARD_BUFFER full: the scan code was dropped, the EOI was sent
C23_Witness ==
    /\ irq_pc = "iretq"
    /\ stored = FALSE
    /\ eois = 1
    /\ kb_buffer.buffer[0] # None /\ kb_buffer.buffer[1] # None

\* ------------------------------------------------------------------- C24

\* the vectors idt::init installs a handler for
InstalledVectors == { 0, 1, 3, 8, 13, 14, 33 }

\* all fields zero, present bit clear
NullDescriptor(entry) ==
    /\ entry.handler = "null"
    /\ entry.selector = 0 /\ entry.ist = 0 /\ entry.type_attr = 0
    /\ entry.reserved = 0
    /\ ~Present(entry)

\* the step writes one descriptor, at vector v, and nothing else of the table
WritesOnly(v) ==
    /\ ~NullDescriptor(Idt_entry(idt', v))
    /\ \A u \in (0 .. IDT_ENTRIES - 1) \ { v } : Idt_entry(idt', u) = Idt_entry(idt, u)

\* C24: after idt::init each of the 256 vectors other than 0, 1, 3, 8, 13,
\* 14 and 33 holds the null descriptor (all fields zero, present bit clear),
\* those seven hold a present one, and a set_handler call changes only the
\* entry of its vector.
C24_UnusedVectorsNull ==
    /\ [](Done("idt_init") =>
            \A v \in 0 .. IDT_ENTRIES - 1 :
               IF v \in InstalledVectors THEN Present(Idt_entry(idt, v))
               ELSE NullDescriptor(Idt_entry(idt, v)))
    /\ [][idt' # idt => \E v \in 0 .. IDT_ENTRIES - 1 : WritesOnly(v)]_vars

\* idt::init has returned and the table is loaded
C24_Witness ==
    /\ Done("idt_init") /\ idtr_loaded
    /\ Idt_entry(idt, 33).handler = "keyboard_wrapper"
    /\ NullDescriptor(Idt_entry(idt, 32))
    /\ NullDescriptor(Idt_entry(idt, 255))

\* ------------------------------------------------------------------- C25

\* the descriptor a selector names in a segment table: the entry at the
\* selector's byte offset, the null descriptor when the selector is not the
\* offset of an entry inside the table's limit
DescriptorAt(gdt, selector) ==
    IF selector % 8 = 0 /\ selector + 7 <= Gdt_limit
    THEN gdt.table[selector \div 8 + 1]
    ELSE GdtEntry_null

\* present, privilege 0, a code or data segment, executable, long mode
KernelCodeSegment(d) ==
    /\ BitTest(d.access, 7)
    /\ ~BitTest(d.access, 6) /\ ~BitTest(d.access, 5)
    /\ BitTest(d.access, 4)
    /\ BitTest(d.access, 3)
    /\ BitTest(d.granularity, 5)

\* type/attribute 0x8E, IST and reserved 0
InterruptGate(entry) ==
    entry.type_attr = 142 /\ entry.ist = 0 /\ entry.reserved = 0

\* C25: every descriptor written by set_handler uses the kernel code segment
\* as its code-segment selector: the selector stored in the IDT entry equals
\* KERNEL_CODE_SELECTOR and is the byte offset of a present, privilege-0,
\* executable, long-mode descriptor of the table Gdt::new builds; its
\* type/attribute byte is 0x8E and its IST and reserved fields are 0.
C25_GateSelector ==
    \A v \in Installed(idt) :
       LET entry == Idt_entry(idt, v) IN
       /\ entry.selector = KERNEL_CODE_SELECTOR
       /\ KernelCodeSegment(DescriptorAt(GDT, entry.selector))
       /\ InterruptGate(entry)

\* both tables are loaded, and the selector of the keyboard gate is the
\* offset of a null descriptor of the GDT
C25_Witness ==
    /\ gdt_loaded /\ idtr_loaded
    /\ 33 \in Installed(idt)
    /\ InterruptGate(Idt_entry(idt, 33))
    /\ Idt_entry(idt, 33).selector # KERNEL_CODE_SELECTOR
    /\ DescriptorAt(GDT, Idt_entry(idt, 33).selector) = GdtEntry_null
    /\ KernelCodeSegment(DescriptorAt(GDT, KERNEL_CODE_SELECTOR))

\* ------------------------------------------------------------------- C26

\* the byte offsets of the entries of a segment table that are not null
SegmentsOf(gdt) ==
    { 8 * (k - 1) : k \in { j \in 1 .. Len(gdt.table) : gdt.table[j] # GdtEntry_null } }

\* base and limit are zero: the three base fields, limit_low, and the limit
\* bits in the low half of the granularity byte
ZeroBaseAndLimit(d) ==
    /\ d.limit_low = 0 /\ d.base_low = 0 /\ d.base_mid = 0 /\ d.base_high = 0
    /\ d.granularity % 16 = 0

\* descriptor user is descriptor kernel with DPL 3 in place of DPL 0
OnlyDplDiffers(kernel, user) ==
    /\ ~BitTest(kernel.access, 5) /\ ~BitTest(kernel.access, 6)
    /\ user = [kernel EXCEPT !.access = @ + 96]

\* C26: the segment table is a fixed table whose entry 0 is the null
\* descriptor and whose selector constants are the byte offsets (index * 8)
\* of the descriptors they name: the entry at KERNEL_CODE_SELECTOR has access
\* byte 0x9A and flags byte 0xA0, the entry at KERNEL_DATA_SELECTOR has access
\* 0x92, the user code and data entries (the two that follow) differ from
\* them only by DPL 3, there is no other segment, and all base and limit
\* fields are zero. This is the table gdt::init loads.
C26_SegmentTable ==
    gdt_loaded =>
       /\ Len(GDT.table) = GDT_ENTRY_COUNT
       /\ GDT.table[1] = GdtEntry_null
       /\ KERNEL_CODE_SELECTOR % 8 = 0 /\ KERNEL_DATA_SELECTOR % 8 = 0
       /\ DescriptorAt(GDT, KERNEL_CODE_SELECTOR).access = 154
       /\ DescriptorAt(GDT, KERNEL_CODE_SELECTOR).granularity = 160
       /\ DescriptorAt(GDT, KERNEL_DATA_SELECTOR).access = 146
       /\ OnlyDplDiffers(DescriptorAt(GDT, KERNEL_CODE_SELECTOR),
                         DescriptorAt(GDT, KERNEL_CODE_SELECTOR + 16))
       /\ OnlyDplDiffers(DescriptorAt(GDT, KERNEL_DATA_SELECTOR),
                         DescriptorAt(GDT, KERNEL_DATA_SELECTOR + 16))
       /\ SegmentsOf(GDT) = { KERNEL_CODE_SELECTOR, KERNEL_DATA_SELECTOR,
                              KERNEL_CODE_SELECTOR + 16, KERNEL_DATA_SELECTOR + 16 }
       /\ \A k \in 1 .. Len(GDT.table) : ZeroBaseAndLimit(GDT.table[k])

\* gdt::init has loaded the table, whose kernel code segment is a long-mode
\* code segment at offset 0x28
C26_Witness ==
    /\ gdt_loaded
    /\ Done("gdt_init")
    /\ KernelCodeSegment(GDT.table[6])

\* ------------------------------------------------------------------- C27

\* divide by zero, double fault, general protection fault, page fault
Fatal == { 0, 8, 13, 14 }

\* debug, breakpoint
Recoverable == { 1, 3 }

\* the condition each exception is reported as
ReportOf(vector) ==
    CASE vector = 0 -> "EXCEPTION: Divide by Zero"
      [] vector = 1 -> "EXCEPTION: Debug"
      [] vector = 3 -> "EXCEPTION: Breakpoint"
      [] vector = 8 -> "EXCEPTION: Double Fault"
      [] vector = 13 -> "EXCEPTION: General Protection Fault"
      [] vector = 14 -> "EXCEPTION: Page Fault"

\* the last report on the console is the one of this exception, on the
\* serial port and on the screen (a page fault adds the faulting address)
Reported(vector) ==
    \E k \in 1 .. Len(console) - 1 :
       /\ console[k] = << "serial_println", ReportOf(vector) >>
       /\ console[k + 1] = << "println", ReportOf(vector) >>
       /\ \A j \in k + 2 .. Len(console) :
             vector = 14 /\ console[j][2] = "  Faulting address"

\* the handler of a fatal exception has reported and sits in its hlt loop,
\* interrupts off
Halted ==
    /\ exc_vector \in Fatal
    /\ AtStatement({ "loop_hlt" })
    /\ Reported(exc_vector)
    /\ ~interrupt_flag

\* the interrupted code runs again
Idle == exc_pc.at = "idle"

IsPrefix(a, b) == Len(a) <= Len(b) /\ SubSeq(b, 1, Len(a)) = a

\* the positions have passed the end of the array: the write position is
\* behind the read position
Wrapped == ring.write_pos < ring.read_pos

\* C28: RingBuffer is FIFO: for any interleaving of push and pop calls,
\* including ones where the positions wrap around the end of the array, the
\* sequence of values returned by successful pops is a prefix of the sequence
\* of successfully pushed values, in the same order (both taken since
\* creation or the last clear).
C28_Fifo == IsPrefix(popped, pushed)

\* no clear was called, the positions have wrapped, and pops have returned
\* items pushed before and after the wrap
C28_Witness ==
    /\ ~cleared
    /\ RingBuffer_N(ring) = 3
    /\ pushed = << 7, 9, 9, 7 >>
    /\ popped = << 7, 9, 9 >>
    /\ ring_last.op = "pop" /\ ring_last.ret = Some(9)

\* ------------------------------------------------------------------- C29

\* the items the buffer holds, by the calls made and by the slots in use
Held == Len(pushed) - Len(popped)

InUse == { i \in DOMAIN ring.buffer : ring.buffer[i] # None }

\* C29: RingBuffer<T, N> holds at most N - 1 items: push returns false
\* exactly when the buffer already holds N - 1 items, pop returns None
\* exactly when it is empty, and in both failure cases read_pos, write_pos
\* and the stored items are unchanged.
C29_FullAndEmpty ==
    /\ [](Held <= RingBuffer_N(ring) - 1 /\ Cardinality(InUse) = Held)
    /\ [][/\ ring_last'.op = "push" =>
                (/\ (ring_last'.ret = FALSE) <=> (Held = RingBuffer_N(ring) - 1)
                 /\ (ring_last'.ret = FALSE) <=> RingBuffer_is_full(ring)
                 /\ (ring_last'.ret = FALSE) => (ring' = ring))
          /\ ring_last'.op = "pop" =>
                (/\ (ring_last'.ret = None) <=> (Held = 0)
                 /\ (ring_last'.ret = None) => (ring' = ring))]_vars

\* a push on a buffer of four slots that holds three items has failed
C29_Witness ==
    /\ RingBuffer_N(ring) = 4
    /\ ring_last.op = "push" /\ ring_last.ret = FALSE
    /\ Held = 3
    /\ Wrapped

\* ------------------------------------------------------------------- C30

\* C30: after any sequence of push, pop and clear, len() is the number of
\* successful pushes minus the number of successful pops since creation or
\* the last clear, 0 <= len() <= N - 1, is_empty() holds iff len() = 0,
\* is_full() holds iff len() = N - 1, and both positions stay in [0, N).
C30_LenAndPositions ==
    /\ RingBuffer_len(ring) = Len(pushed) - Len(popped)
    /\ 0 <= RingBuffer_len(ring)
    /\ RingBuffer_len(ring) <= RingBuffer_N(ring) - 1
    /\ RingBuffer_is_empty(ring) <=> RingBuffer_len(ring) = 0
    /\ RingBuffer_is_full(ring) <=> RingBuffer_len(ring) = RingBuffer_N(ring) - 1
    /\ ring.read_pos \in 0 .. RingBuffer_N(ring) - 1
    /\ ring.write_pos \in 0 .. RingBuffer_N(ring) - 1

\* after a clear the buffer was filled again and the positions have wrapped
C30_Witness ==
    /\ cleared
    /\ RingBuffer_N(ring) = 4
    /\ Len(pushed) = 5 /\ Len(popped) = 3
    /\ RingBuffer_len(ring) = 2
    /\ ring.write_pos = 1 /\ ring.read_pos = 3

\* ------------------------------------------------------------------- C31

\* context c is in a method, between reading the allocator and returning
InMethod(c) == ctx[c] = "modify"

\* context c's method returns in this step
Returns(c) == ctx[c] = "modify" /\ ctx'[c] = "drop"

\* the step is the whole method of c's call, applied to the allocator as it
\* is now, and c gets that method's result
WholeMethod(c) ==
    \E map \in SharedMaps, hhdm \in HhdmOffsets, overflow_checks \in BOOLEAN :
       LET out == MethodOf(fa_call[c], Self, map, hhdm, overflow_checks)
       IN  /\ Self' = out.self
           /\ fa_call'[c].ret = out.ret
           /\ panicked' = out.panic

\* C31: every public operation of the frame allocator runs inside one lock
\* hold: while a context is in a method the allocator stays as that context
\* read it, the allocator changes only in the step in which a method
\* returns, and that step is the whole method applied to the allocator of
\* that moment, so two contexts' calls take effect in a serial order and
\* stats() returns (total, used, free) of one state.
C31_LockedOperations ==
    /\ [](\A c \in Contexts : InMethod(c) => fa_seen[c] = Self)
    /\ [][ (Self' # Self) => (\E c \in Contexts : Returns(c)) ]_vars
    /\ [][ \A c \in Contexts : Returns(c) => WholeMethod(c) ]_vars

\* one context is inside stats() with frames in use while the other, which
\* has completed a call before, spins in lock() for an allocation
C31_Witness ==
    /\ InMethod(1)
    /\ fa_call[1].op = "stats"
    /\ ctx[2] = "spin"
    /\ fa_call[2].op = "allocate_frame"
    /\ cycles[2] >= 1
    /\ used_frames > 0
    /\ locked

\* ------------------------------------------------------------------- C32

\* the depth of the stack when the trampoline is entered: the return frame
\* and, for some vectors, the error code
EntryDepth == IF exc_vector \in ErrorCodeVectors THEN 2 ELSE 1

\* the step runs the trampoline's pushes and call
Pushes == exc_pc.at = "push" /\ exc_pc'.at = "handler"

\* the step runs the trampoline's pops
Pops == exc_pc.at = "pop" /\ exc_pc'.at = "iretq"

\* C32: the trampoline pushes rax, rcx, rdx, rsi, rdi, r8, r9, r10, r11 in
\* this order before the call and leaves them as they are; for a handler
\* that returns, its pops take the nine values back in the reverse order,
\* each register getting the value pushed for it; so at iretq every one of
\* the nine registers holds its value of before the interrupt and the stack
\* is as deep as when the trampoline was entered.
C32_SaveRestore ==
    /\ [][ Pushes =>
             /\ Len(exc_stack') = Len(exc_stack) + 9
             /\ SubSeq(exc_stack', 1, Len(exc_stack)) = exc_stack
             /\ \A k \in 1 .. 9 :
                   exc_stack'[Len(exc_stack) + k].value = regs[SavedRegisters[k]]
             /\ regs' = regs ]_vars
    /\ [][ Pops =>
             /\ Len(exc_stack') = Len(exc_stack) - 9
             /\ exc_stack' = SubSeq(exc_stack, 1, Len(exc_stack'))
             /\ \A k \in 1 .. 9 :
                   regs'[SavedRegisters[k]] = exc_stack[Len(exc_stack') + k].value ]_vars
    /\ [](exc_pc.at = "iretq" =>
             /\ regs = InterruptedRegs
             /\ Len(exc_stack) = EntryDepth)

\* the trampoline of the breakpoint exception is at its iretq for the second
\* time, after a handler that used the registers for its reports
C32_Witness ==
    /\ exc_pc.at = "iretq"
    /\ exc_vector = 3
    /\ exceptions = 2
    /\ Len(console) = 4
    /\ regs = InterruptedRegs

\* ------------------------------------------------------------------- C33

\* the n frames of region r from frame start on are free
FreeRunAt(r, start, n) ==
    /\ start + n <= regions[r].frame_count
    /\ \A i \in 0 .. n - 1 : FreeFrame(r, start + i)

\* region r is large enough for n frames and contains a free run of n
RegionHasRun(r, n) ==
    /\ regions[r].frame_count >= n
    /\ \E start \in 0 .. regions[r].frame_count - n : FreeRunAt(r, start, n)

\* the first region, in the order init recorded them, with a free run of n
FirstRegionWithRun(n) ==
    CHOOSE r \in RegionIds :
        /\ RegionHasRun(r, n)
        /\ \A q \in 0 .. r - 1 : ~RegionHasRun(q, n)

\* the lowest start of a free run of n in region r
LowestRun(r, n) ==
    CHOOSE start \in 0 .. regions[r].frame_count - n :
        /\ FreeRunAt(r, start, n)
        /\ \A t \in 0 .. start - 1 : ~FreeRunAt(r, t, n)

\* C33: a successful allocate_contiguous_frames(n) takes, in the first
\* region in report order that has at least n frames and a free run of n,
\* the lowest such run: it sets exactly the n bits of that run, which were
\* clear, adds n to used_frames and returns the address of the run's first
\* frame.
C33_LowestRunOfFirstRegion ==
    [][ (last'.op = "allocate_contiguous_frames" /\ last'.ret # None) =>
            LET n == last'.arg[1]
                r == FirstRegionWithRun(n)
                start == LowestRun(r, n)
                first == PrefixFrames(r) + start
                run == first .. first + n - 1
            IN  /\ \E q \in RegionIds : RegionHasRun(q, n)
                /\ run \cap AllBits(bitmap) = {}
                /\ AllBits(bitmap') = AllBits(bitmap) \cup run
                /\ used_frames' = used_frames + n
                /\ last'.ret = Some(regions[r].base + start * FRAME_SIZE)
                /\ ~panicked' ]_vars

\* a run of 2 was taken in the second region from its second frame on: the
\* first region is large enough and has free frames but no two of them side
\* by side, and the second region's first frame is in use
C33_Witness ==
    /\ last.op = "allocate_contiguous_frames"
    /\ last.arg = Some(2)
    /\ region_count = 2
    /\ regions[0].frame_count >= 2
    /\ \E k \in 0 .. regions[0].frame_count - 1 : FreeFrame(0, k)
    /\ BitAt(bitmap, PrefixFrames(1))
    /\ last.ret = Some(regions[1].base + FRAME_SIZE)

\* ------------------------------------------------------------------- C34

\* the flat index of the frame of phys_addr: the frames of the regions before
\* the first region containing it, plus its frame number in that region
FlatIndexOf(phys_addr) ==
    LET r == CHOOSE q \in RegionIds :
                 /\ InRegion(q, phys_addr)
                 /\ \A p \in 0 .. q - 1 : ~InRegion(p, phys_addr)
    IN  PrefixFrames(r) + (phys_addr - regions[r].base) \div FRAME_SIZE

\* deallocate_frame called on each address of addrs in turn, from self on
RECURSIVE FreeEach(_, _, _)
FreeEach(self, addrs, overflow_checks) ==
    IF addrs = << >> THEN Ret(self, None)
    ELSE LET out == FrameAllocator_deallocate_frame(self, Head(addrs), overflow_checks)
         IN  IF out.panic THEN out ELSE FreeEach(out.self, Tail(addrs), overflow_checks)

\* the n frames from address a on, upwards and downwards
Upwards(a, n) == [ i \in 1 .. n |-> a + (i - 1) * FRAME_SIZE ]

Downwards(a, n) == [ i \in 1 .. n |-> a + (n - i) * FRAME_SIZE ]

\* C34: deallocate_frame(a) with a the address of a frame that is allocated
\* clears the bit at that frame's flat index and no other, takes 1 from
\* used_frames and returns; and after a successful contiguous allocation of
\* n frames, freeing the n frames one by one gives back the allocator of
\* before the allocation.
C34_FreeClearsOneBit ==
    /\ [][ (last'.op = "deallocate_frame" /\ last'.arg[1] \in held) =>
              /\ BitAt(bitmap, FlatIndexOf(last'.arg[1]))
              /\ AllBits(bitmap') = AllBits(bitmap) \ { FlatIndexOf(last'.arg[1]) }
              /\ used_frames' = used_frames - 1
              /\ ~panicked' ]_vars
    /\ [][ (last'.op = "allocate_contiguous_frames" /\ last'.ret # None) =>
              \A overflow_checks \in BOOLEAN :
                 \A order \in { Upwards(last'.ret[1], last'.arg[1]),
                                Downwards(last'.ret[1], last'.arg[1]) } :
                    LET out == FreeEach(Self', order, overflow_checks)
                    IN  ~out.panic /\ out.self = Self ]_vars

\* a frame of the second region was freed while frames below and above it
\* in the bitmap stay allocated
C34_Witness ==
    /\ last.op = "deallocate_frame"
    /\ last.changed
    /\ region_count >= 2
    /\ last.arg[1] = regions[1].base + FRAME_SIZE
    /\ BitAt(bitmap, PrefixFrames(1))
    /\ BitAt(bitmap, PrefixFrames(1) + 2)
    /\ ~BitAt(bitmap, PrefixFrames(1) + 1)
    /\ used_frames >= 3

\* ------------------------------------------------------------------- C35

\* C35: for every memory map init accepts, total_frames does not exceed the
\* capacity of the bitmap, and no call reads or writes a bit index at or
\* past MAX_FRAMES (an index past the bitmap's last byte stops the kernel in
\* its panic handler).
C35_BitmapBounds ==
    /\ total_frames <= MAX_FRAMES
    /\ ~panicked

\* init has counted more frames than the bitmap has bits, and a scan that
\* went on past the last bit has stopped the kernel
C35_Witness ==
    /\ initialized
    /\ total_frames > MAX_FRAMES
    /\ panicked
    /\ used_frames = MAX_FRAMES
    /\ last.op \in AllocOps

\* ------------------------------------------------------------------- C36

\* the usable entries of the memory map init has recorded, and those it has
\* ignored because the region table was full
Recorded == FirstN(UsableEntries(memory_map), MAX_REGIONS)

Ignored ==
    SubSeq(UsableEntries(memory_map), Len(Recorded) + 1, Len(UsableEntries(memory_map)))

\* C36: init records at most MAX_REGIONS regions: region_count never exceeds
\* MAX_REGIONS, the usable entries that arrive when the table is full are
\* ignored, and total_frames is the sum of the frame counts of the recorded
\* regions only (nothing of an ignored entry is in it); and the boot path
\* hands init the first MAP_SLICE_LEN entries of the memory map, of any type.
C36_RegionCapacity ==
    /\ region_count <= MAX_REGIONS
    /\ total_frames = PrefixFrames(region_count)
    /\ initialized =>
          /\ region_count = Len(Recorded)
          /\ \A k \in 1 .. Len(Recorded) :
                /\ regions[k - 1].base = Recorded[k].base
                /\ regions[k - 1].frame_count = Recorded[k].length \div FRAME_SIZE
          /\ total_frames = SumOfFrames(Recorded)
          /\ \A k \in 1 .. Len(Ignored) :
                \A r \in RegionIds : regions[r].base # Ignored[k].base
    /\ \A map \in MemoryMaps :
          /\ Len(boot_map_slice(map)) <= MAP_SLICE_LEN
          /\ boot_map_slice(map) = FirstN(map, MAP_SLICE_LEN)

\* init has run on a map with more usable entries than the table holds: the
\* table is full, the last usable entry is not in it, and frames of all the
\* recorded regions have been handed out
C36_Witness ==
    /\ initialized
    /\ Len(Ignored) >= 1
    /\ region_count = MAX_REGIONS
    /\ total_frames < SumOfFrames(UsableEntries(memory_map))
    /\ used_frames = total_frames
    /\ used_frames > 0

\* ------------------------------------------------------------------- C37

\* C37: deallocate_frame called with any address inside an allocated frame
\* (its start a plus an offset below FRAME_SIZE) frees that frame exactly as
\* deallocate_frame(a) does: the allocator afterwards is the one the call
\* with the frame's start address gives, with that frame's bit cleared.
C37_AnyAddressInFrame ==
    [][ (last'.op = "deallocate_frame" /\ HeldAt(last'.arg[1]) # {}) =>
            \A a \in HeldAt(last'.arg[1]) :
               \A overflow_checks \in BOOLEAN :
                  LET at_start == FrameAllocator_deallocate_frame(Self, a, overflow_checks)
                  IN  /\ ~at_start.panic
                      /\ ~panicked'
                      /\ Self' = at_start.self
                      /\ BitAt(bitmap, FlatIndexOf(a))
                      /\ ~BitAt(bitmap', FlatIndexOf(a)) ]_vars

\* a frame was freed through the address of its last byte, and the frame
\* after it is still allocated
C37_Witness ==
    /\ last.op = "deallocate_frame"
    /\ last.changed
    /\ last.arg[1] % FRAME_SIZE = FRAME_SIZE - 1
    /\ ~BitAt(bitmap, FlatIndexOf(last.arg[1]))
    /\ BitAt(bitmap, FlatIndexOf(last.arg[1]) + 1)
    /\ FlatIndexOf(last.arg[1]) + 1 < total_frames

\* ------------------------------------------------------------------- C38

\* the outcome of a call that has just been made: the allocator afterwards,
\* the value returned, whether it panicked
Outcome == [self |-> Self', ret |-> last'.ret, panic |-> panicked']

\* C38: in every reachable state of the allocator, allocate_contiguous_frames(1)
\* and allocate_frame() have the same outcome (value returned, bitmap,
\* used_frames), and allocate_contiguous_frames(0) returns None and changes
\* nothing; a call of either kind that is made has the outcome of the other.
C38_SingleFrameEquivalence ==
    /\ [](~panicked =>
            /\ FrameAllocator_allocate_contiguous_frames(Self, 1)
                   = FrameAllocator_allocate_frame(Self)
            /\ FrameAllocator_allocate_contiguous_frames(Self, 0) = Ret(Self, None))
    /\ [][ (last'.op = "allocate_contiguous_frames" /\ last'.arg = Some(1)) =>
              Outcome = FrameAllocator_allocate_frame(Self) ]_vars
    /\ [][ last'.op = "allocate_frame" =>
              Outcome = FrameAllocator_allocate_contiguous_frames(Self, 1) ]_vars
    /\ [][ (last'.op = "allocate_contiguous_frames" /\ last'.arg = Some(0)) =>
              (last'.ret = None /\ Self' = Self /\ ~panicked') ]_vars

\* allocate_contiguous_frames(1) has returned the first frame of the second
\* region, the first region being in use up to its last frame, while a frame
\* is free behind the one returned
C38_Witness ==
    /\ last.op = "allocate_contiguous_frames"
    /\ last.arg = Some(1)
    /\ region_count >= 2
    /\ last.ret = Some(regions[1].base)
    /\ used_frames = regions[0].frame_count + 1
    /\ used_frames < total_frames
    /\ FrameAllocator_allocate_contiguous_frames(Self, 1).ret
           = Some(regions[1].base + FRAME_SIZE)

\* ------------------------------------------------------------------- C39

\* context c is in lock(): at the compare exchange or in the spin hint
Waiting(c) == ctx[c] \in { "lock", "spin" }

\* C39: with both contexts running and every holder dropping its guard,
\* whenever the lock is free and some context is in lock(), some context
\* gets the guard (the lock does not deadlock), and whenever a context is in
\* lock() the lock is handed to some context again; which waiter gets it is
\* not said: a context in lock() may see the other one get the guard.
C39_LockProgress ==
    /\ (~locked /\ \E c \in Contexts : Waiting(c)) ~> (\E c \in Contexts : HasGuard(c))
    /\ \A c \in Contexts : Waiting(c) ~> (\E d \in Contexts : HasGuard(d))
    /\ [][ \A c \in Contexts :
              (overtaken'[c] > overtaken[c]) =>
                  (Waiting(c) /\ \E d \in Contexts \ {c} : ~HasGuard(d) /\ HasGuard(d)') ]_vars

\* context 2 has been in lock() while context 1 got the guard twice: the
\* lock was free in between and went to the context that asked later
C39_Witness ==
    /\ Waiting(2)
    /\ overtaken[2] >= 2
    /\ HasGuard(1)
    /\ cycles[1] >= 1
    /\ cycles[2] = 0

\* ------------------------------------------------------------------- C40

\* the scan codes KEYBOARD_BUFFER holds, oldest first: the slots from
\* read_pos up to write_pos
KeyboardContents ==
    [ k \in 1..RingBuffer_len(kb_buffer) |->
          kb_buffer.buffer[(kb_buffer.read_pos + k - 1) % BUFFER_SIZE][1] ]

\* the handler's push found the buffer full: the rest of handle_interrupt
\* and the trampoline's return are still to run
AfterDroppedCode == irq_pc \in { "drop", "send_eoi", "iretq" } /\ stored = FALSE

\* C40: when the keyboard handler pushes while KEYBOARD_BUFFER holds
\* BUFFER_SIZE - 1 scan codes, the new code is dropped and the buffer is left
\* as it was; the handler then goes on without waiting, and the EOI has been
\* sent when the trampoline returns. A code that is stored goes behind the
\* codes already held, read_scancode returns the oldest code held and
\* removes it (None when there is none), and no other step changes the
\* buffer: the stored codes come out in arrival order.
C40_OverflowDropsNewest ==
    /\ [][ (irq_pc = "push" /\ irq_pc' = "drop") =>
              IF Len(KeyboardContents) = BUFFER_SIZE - 1
              THEN kb_buffer' = kb_buffer /\ stored' = FALSE
              ELSE /\ KeyboardContents' = Append(KeyboardContents, scan_code)
                   /\ stored' = TRUE ]_vars
    /\ [](AfterDroppedCode =>
              ENABLED (handle_interrupt_drop \/ handle_interrupt_send_eoi
                           \/ trampoline_iretq))
    /\ [][ (irq_pc = "iretq" /\ irq_pc' = "idle" /\ stored = FALSE) =>
              (eois = 1 /\ 1 \notin pics'[1].isr) ]_vars
    /\ [][ (reader_pc = "pop" /\ reader_pc' = "drop") =>
              IF KeyboardContents = << >>
              THEN kb_buffer' = kb_buffer /\ read_ret' = None
              ELSE /\ read_ret' = Some(Head(KeyboardContents))
                   /\ KeyboardContents' = Tail(KeyboardContents) ]_vars
    /\ [][ (kb_buffer' # kb_buffer) =>
              \/ irq_pc = "push" /\ irq_pc' = "drop"
              \/ reader_pc = "pop" /\ reader_pc' = "drop" ]_vars

\* three keys were pressed, the third while the buffer held two codes: its
\* handler dropped it, sent the EOI and returned; read_scancode has since
\* returned the first code and the second one is the only code held
C40_Witness ==
    /\ keys_pressed = 3
    /\ irq_pc = "idle"
    /\ stored = FALSE
    /\ eois = 1
    /\ read_ret = Some(30)
    /\ KeyboardContents = << 48 >>

====
